---- MODULE Spec2Model ----
\* A model of kubectl-tail: the pod watchers and the supervisor's handle map
\* (src/src/main.rs), the follow tasks (src/src/kubernetes.rs), the bounded
\* log channel and its consumers (stdout printer, TUI forwarding task).
EXTENDS Integers, Sequences, FiniteSets, TLC

\* ---------------------------------------------------------------- bounds

\* Follow tasks spawned in one run.
MaxTasks == 2
\* cli.buffer_size, the capacity of the log channel.
BufferSize == 1
\* Capacity of the TUI event channel (mpsc::channel::<AppEvent>(100) in the code).
EventCap == 2
\* Pod events the watch streams deliver, log_stream calls of all follow tasks
\* together (the loop of spawn_tail_task is unbounded), and lines the server
\* holds per container: for the runs that exercise the supervisor ...
SupEvents == 3
SupOpens == 1
SupLines == 1
\* ... for the runs that exercise one pod's follow tasks ...
FollowEvents == 2
FollowOpens == 2
FollowLines == 2
\* ... and for the runs that exercise the TUI's forwarding of log messages.
TuiEvents == 1
TuiOpens == 2
TuiLines == 2
\* ... and for the runs that start with the resolution of the command line:
\* resource arguments given, pod events delivered.
MaxResources == 2
StartEvents == 1
\* ... and for the runs that start with the choice of the presenter.
GrepEvents == 1
GrepOpens == 1
GrepLines == 2
\* ... and for the runs that exercise the TUI's App alone: the largest
\* max_buffer_size an App is created with, the distinct lines passed to
\* add_log, and the length of a search or filter pattern typed.
MaxBufferSize == 2
AppLines == 3
MaxPatternLen == 1

\* ---------------------------------------------------------------- inputs

\* The watchers spawn_all_watchers can start: one for a label selector, one for
\* an explicit pod.
Watchers == {"selector", "pod"}

\* The watchers of the invocations `my-pod` and `-l app=web my-pod`.
WatcherSets == {{"pod"}, {"selector", "pod"}}

Pods == {"my-pod"}

\* TailContext.cluster and TailContext.namespace of every watcher of one
\* WatchConfig.
CtxCluster == "ctx"

CtxNamespace == "default"

Phases == {"Running", "Pending", "Succeeded"}

\* pod.spec.containers, as a watch event or a GET of the pod reports it.
ContainerLists == {<<"app">>, <<"app", "sidecar">>}

GetErr == <<"error">>

\* cli.container: no filter, a container some pods have, a container no pod has.
NoFilter == "-"

ContainerFilters == {NoFilter, "sidecar", "nosuch"}

\* cli.tail: None (-1) or Some(n).
NoTail == -1

TailOptions == {NoTail, 1}

\* The first n of the lines L1, L2, ... a container writes.
LogLines(n) == [i \in 1..n |-> i]

\* An Option that is None: a flag not given, a part a reference does not have.
NoFlag == "-"

\* msg.line: the text L1, L2, ... of a log line; an event that is not a log
\* line has an empty one.
LineText(msg) ==
    IF msg.kind = "Log" THEN <<"L1", "L2", "L3", "L4">>[msg.line] ELSE ""

\* cli.grep: none, a pattern every line matches, a pattern only L2 matches, a
\* pattern that is not a regular expression.
GrepFlags == {NoFlag, "L", "L2$", "([unclosed"}

\* Regex::new(pattern) is Ok.
RegexOk(pattern) == pattern \in {"L", "L2$"}

\* Regex::is_match on the text of a line.
IsMatch(regex, text) ==
    CASE regex = "L" -> text \in {"L1", "L2", "L3", "L4"}
      [] regex = "L2$" -> text = "L2"
      [] OTHER -> FALSE

\* Results of api.log_stream.
OpenResults == {"ok", "NotFound404", "ApiError500", "Network"}

\* ---------------------------------------------------------------- state

VARIABLES
    container,   \* cli.container
    tail,        \* cli.tail
    use_tui,     \* presenter selected in main
    handles,     \* HashMap<PodKey, Vec<AbortHandle>>
    tasks,       \* the follow tasks spawned so far, by task id
    watchers,    \* per watcher: position in watch_pods / handle_pod_event
    bus,         \* the log channel (log_tx, log_rx)
    bus_closed,  \* log_rx dropped
    fwd,         \* message held by the TUI forwarding task
    event_ch,    \* the TUI event channel (event_tx, event_rx)
    event_closed,\* event_rx dropped (run_tui_mode returned)
    app,         \* the TUI's App (ui/app.rs)
    presented,   \* messages printed / passed to App.add_log, in order
    events_left, \* pod events the watch streams still deliver
    opens_left,  \* log_stream calls the follow tasks can still make
    server_log,  \* the lines the server holds for a container, oldest first
    observed,    \* per pod: the event handled last
    resolver,    \* cli.resources, cli.selector, cli.context, cli.namespace and
                 \* the locals of main / parse_resources_and_selectors
    labelled,    \* the pods that bear the label of the --selector
    grep,        \* cli.grep
    stdout       \* the lines run_stdout_mode's printer has written, in order

vars == <<container, tail, use_tui, handles, tasks, watchers, bus, bus_closed,
          fwd, event_ch, event_closed, app, presented,
          events_left, opens_left, server_log, observed, resolver, labelled,
          grep, stdout>>

supVars == <<handles, watchers, events_left, observed>>

logVars == <<bus, bus_closed, fwd, presented>>

tuiVars == <<event_ch, event_closed, app>>

\* What is fixed once the watchers run: the command line, the outcome of its
\* resolution and the labels of the pods.
cliVars == <<container, tail, use_tui, resolver, labelled, grep>>

\* The server's side of the follow-log streams.
envVars == <<opens_left, server_log>>

\* ---------------------------------------------------------------- helpers

\* Pods whose events a watcher's stream can carry: the field selector
\* metadata.name=<pod> pins the explicit-pod watcher to one name, the label
\* selector restricts the other watcher to the pods that bear the label.
WatcherPods(w) == IF w = "pod" THEN {"my-pod"} ELSE labelled

PodKey(cluster, namespace, pod_name, container_name) ==
    [cluster |-> cluster, namespace |-> namespace,
     pod_name |-> pod_name, container_name |-> container_name]

\* The predicate of handle_pod_event's was_tracking and of stop_tailing_pod's
\* keys_to_remove: same cluster, namespace and pod name, any container.
SamePod(k, base_key) ==
    /\ k.cluster = base_key.cluster
    /\ k.namespace = base_key.namespace
    /\ k.pod_name = base_key.pod_name

ContainerNames == UNION {{l[i] : i \in 1..Len(l)} : l \in ContainerLists}

\* Every key handle_pod_event can insert; "" is the container_name of a base key.
AllKeys == {[cluster |-> CtxCluster, namespace |-> CtxNamespace,
             pod_name |-> p, container_name |-> c] : p \in Pods, c \in ContainerNames}

\* guard.keys(): an absent key is modelled by an empty Vec.
HandleKeys == {k \in AllKeys : handles[k] # <<>>}

WasTracking(base_key) == \E k \in HandleKeys : SamePod(k, base_key)

Min(a, b) == IF a < b THEN a ELSE b

Max(a, b) == IF a > b THEN a ELSE b

SeqToSet(s) == {s[i] : i \in 1..Len(s)}

NoMsg == [kind |-> "none"]

\* A watcher spawn_all_watchers did not start.
AbsentWatcher == [pc |-> "absent", pod |-> "", phase |-> "", spec |-> <<>>,
                  pod_handles |-> <<>>, idx |-> 0]

IdleWatcher == [pc |-> "idle", pod |-> "", phase |-> "", spec |-> <<>>,
                pod_handles |-> <<>>, idx |-> 0]

\* The ids of the follow tasks, in the order they are spawned.
TaskIds == 1..MaxTasks

\* A freshly spawned follow task (the locals of spawn_tail_task's async block).
NewTask(pod_name, container_name) ==
    [pod_name |-> pod_name, container_name |-> container_name,
     state |-> "running", pc |-> "open",
     is_first_attempt |-> TRUE, reconnection_attempt |-> 0,
     disconnection_time |-> FALSE,
     pos |-> 0, lines_read |-> 0, outq |-> <<>>, cont |-> "open",
     open_result |-> "none", sent |-> <<>>]

\* handle.abort(): a task that already returned is not affected.
AbortTask(t) == IF t.state = "running" THEN [t EXCEPT !.state = "aborted"] ELSE t

\* ---------------------------------------------------------------- resolver

\* A resource argument is the sequence of its pieces, "/" being the separator.
Slash == "/"

ResourceArgs ==
    {<<"my-pod">>,
     <<"pod", Slash, "my-pod">>,
     <<"deployment", Slash, "web">>,
     <<"cronjob", Slash, "nightly">>,
     <<"prod", Slash, "deployment", Slash, "web">>,
     <<"east", Slash, "prod", Slash, "pod", Slash, "my-pod">>,
     <<"a", Slash, "b", Slash, "c", Slash, "d", Slash, "e">>}

\* cli.resources
ResourceLists == UNION {[1..n -> ResourceArgs] : n \in 0..MaxResources}

\* cli.selector, cli.context, cli.namespace
SelectorFlags == {NoFlag, "app=web"}

ContextFlags == {NoFlag, "east", "nowhere"}

NamespaceFlags == {NoFlag, "prod"}

\* The contexts of the kubeconfig; CtxCluster is its current context.
KubeconfigContexts == {CtxCluster, "east"}

\* The label keys, in lexicographic order (the order of a BTreeMap's keys).
LabelKeys == <<"app", "tier", "version">>

\* BTreeMap built by inserting the (key, value) entries one after the other:
\* the set of its pairs, a later entry replacing an earlier one of the same key.
BTreeMapOf(entries) ==
    {entries[i] : i \in {j \in 1..Len(entries) :
                            \A k \in (j + 1)..Len(entries) :
                                entries[k][1] # entries[j][1]}}

\* LabelSelector values a controller's spec.selector can hold. match_labels is
\* a map, given as the set of its (key, value) pairs; the two-label map is
\* built in both insertion orders.
LabelSelectors ==
    {[match_labels |-> {}, match_expressions |-> <<>>],
     [match_labels |-> {<<"app", "web">>}, match_expressions |-> <<>>],
     [match_labels |-> BTreeMapOf(<<<<"version", "v1">>, <<"app", "web">>>>),
      match_expressions |-> <<>>],
     [match_labels |-> BTreeMapOf(<<<<"app", "web">>, <<"version", "v1">>>>),
      match_expressions |-> <<>>],
     [match_labels |-> {},
      match_expressions |-> <<[key |-> "tier", operator |-> "Exists"]>>],
     [match_labels |-> {},
      match_expressions |-> <<[key |-> "tier", operator |-> "Bogus"]>>]}

\* str::split('/'): the pieces between the separators.
RECURSIVE SplitSlash(_)
SplitSlash(s) ==
    IF s = <<>> THEN <<"">>
    ELSE LET rest == SplitSlash(Tail(s))
         IN  IF Head(s) = Slash
             THEN <<"">> \o rest
             ELSE <<Head(s) \o Head(rest)>> \o Tail(rest)

\* parse_resource_spec
ParseResourceSpec(res) ==
    LET parts == SplitSlash(res)
    IN  CASE Len(parts) = 1 ->
                [ok |-> TRUE, context |-> NoFlag, namespace |-> NoFlag,
                 kind |-> NoFlag, name |-> parts[1]]
          [] Len(parts) = 2 ->
                [ok |-> TRUE, context |-> NoFlag, namespace |-> NoFlag,
                 kind |-> parts[1], name |-> parts[2]]
          [] Len(parts) = 3 ->
                [ok |-> TRUE, context |-> NoFlag, namespace |-> parts[1],
                 kind |-> parts[2], name |-> parts[3]]
          [] Len(parts) = 4 ->
                [ok |-> TRUE, context |-> parts[1], namespace |-> parts[2],
                 kind |-> parts[3], name |-> parts[4]]
          [] OTHER ->
                [ok |-> FALSE, context |-> NoFlag, namespace |-> NoFlag,
                 kind |-> NoFlag, name |-> ""]

\* spec.kind.as_deref().unwrap_or("pod")
KindOf(spec) == IF spec.kind = NoFlag THEN "pod" ELSE spec.kind

\* The kinds get_selector_from_resource fetches from the API server.
ControllerKinds == {"deployment", "statefulset", "daemonset", "job", "replicaset"}

\* get_selector_from_resource: the results the call can have. A controller is
\* fetched from the server, which may not have it (or may fail); a pod has no
\* selector; any other kind is an error.
GetSelectorFromResource(kind) ==
    IF kind \in ControllerKinds
    THEN {[tag |-> "Err", sel |-> NoFlag]}
            \cup {[tag |-> "Some", sel |-> sel] : sel \in LabelSelectors}
    ELSE IF kind = "pod"
    THEN {[tag |-> "None", sel |-> NoFlag]}
    ELSE {[tag |-> "Err", sel |-> NoFlag]}

\* The entries of match_labels in the reverse of the order of the map's keys.
EqualityExpressionsReversed(match_labels) ==
    LET keys == SelectSeq(LabelKeys, LAMBDA k : \E kv \in match_labels : kv[1] = k)
    IN  [i \in 1..Len(keys) |->
            (CHOOSE kv \in match_labels : kv[1] = keys[Len(keys) + 1 - i])[1] \o "=" \o
            (CHOOSE kv \in match_labels : kv[1] = keys[Len(keys) + 1 - i])[2]]

\* Expression::Equal for each entry of match_labels, in the order of the
\* map's keys.
EqualityExpressions(match_labels) ==
    LET keys == SelectSeq(LabelKeys, LAMBDA k : \E kv \in match_labels : kv[1] = k)
    IN  [i \in 1..Len(keys) |->
            (CHOOSE kv \in match_labels : kv[1] = keys[i])[1] \o "=" \o
            (CHOOSE kv \in match_labels : kv[1] = keys[i])[2]]

\* Expression::try_from(LabelSelectorRequirement): the rendering of one
\* requirement; an operator that is not known is an error.
RequirementOk(req) == req.operator \in {"Exists", "DoesNotExist"}

RequirementString(req) ==
    IF req.operator = "Exists" THEN req.key ELSE "!" \o req.key

\* Selector::try_from(LabelSelector): the expressions of match_labels followed
\* by those of match_expressions.
SelectorExpressions(sel) ==
    EqualityExpressions(sel.match_labels) \o
        [i \in 1..Len(sel.match_expressions) |->
            RequirementString(sel.match_expressions[i])]

\* A selector that selects nothing at all.
SelectsAllNever(expressions) == FALSE

\* Selector::selects_all
SelectsAll(expressions) == expressions = <<>>

\* Selector::to_string: the expressions joined by ",".
RECURSIVE JoinComma(_)
JoinComma(expressions) ==
    IF expressions = <<>> THEN ""
    ELSE IF Len(expressions) = 1 THEN expressions[1]
    ELSE expressions[1] \o "," \o JoinComma(Tail(expressions))

\* selector_to_labels_string: None (NoFlag) when the conversion fails or the
\* selector selects everything.
SelectorToLabelsString(sel) ==
    IF \E i \in 1..Len(sel.match_expressions) :
            ~RequirementOk(sel.match_expressions[i])
    THEN NoFlag
    ELSE IF SelectsAll(SelectorExpressions(sel))
    THEN NoFlag
    ELSE JoinComma(SelectorExpressions(sel))

\* The orders in which the elements of a HashSet / HashMap can be visited.
Orderings(S) ==
    {o \in [1..Cardinality(S) -> S] :
        \A i, j \in 1..Cardinality(S) : o[i] = o[j] => i = j}

\* main: contexts_to_init, from --context and the references that parse.
ContextsToInit(cli) ==
    (IF cli.context # NoFlag THEN {cli.context} ELSE {})
        \cup {ParseResourceSpec(cli.resources[i]).context :
                i \in {j \in 1..Len(cli.resources) :
                        /\ ParseResourceSpec(cli.resources[j]).ok
                        /\ ParseResourceSpec(cli.resources[j]).context # NoFlag}}

NoGroup == [context |-> "", namespace |-> "", specs |-> <<>>]

\* main has parsed the command line; nothing is resolved yet.
NewResolver(resources, selector, context, namespace) ==
    [resources |-> resources, selector |-> selector, context |-> context,
     namespace |-> namespace,
     pc |-> "parse", error |-> "", clients |-> <<>>,
     default_context |-> "", default_namespace |-> "",
     parsed_specs |-> <<>>, grouped |-> {}, group |-> NoGroup, i |-> 0,
     label_selectors |-> <<>>, explicit_pods |-> {}, fetched |-> <<>>,
     log |-> <<>>, configs |-> <<>>, spawned |-> <<>>]

\* `?` / bail! / exit(1): main ends with an error, exit code 1.
Fail(r, message) == [r EXCEPT !.pc = "failed", !.error = message]

\* The grouped map: the parsed references of each (context, namespace), in the
\* order given, and the default pair when --selector is given.
GroupKey(r, spec, default_context, default_namespace) ==
    <<IF spec.context # NoFlag THEN spec.context ELSE default_context,
      IF spec.namespace # NoFlag THEN spec.namespace ELSE default_namespace>>

Grouped(r, parsed_specs, default_context, default_namespace) ==
    LET keys == {GroupKey(r, parsed_specs[i], default_context, default_namespace) :
                    i \in 1..Len(parsed_specs)}
                \cup (IF r.selector # NoFlag
                      THEN {<<default_context, default_namespace>>} ELSE {})
    IN  {[context |-> k[1], namespace |-> k[2],
          specs |-> SelectSeq(parsed_specs,
                        LAMBDA spec : GroupKey(r, spec, default_context,
                                               default_namespace) = k)] :
            k \in keys}

\* A check of --context against the references that never objects.
ContextGivenTwiceNever(r, parsed_specs) == FALSE

\* `if cli.context.is_some()` and some reference has a context of its own.
ContextGivenTwice(r, parsed_specs) ==
    /\ r.context # NoFlag
    /\ \E i \in 1..Len(parsed_specs) : parsed_specs[i].context # NoFlag

\* main up to the loop over the groups: the check of the arguments,
\* initialize_clients, and parse_resources_and_selectors up to `grouped`.
ParsedWith(r, clients) ==
    LET parsed_specs == [i \in 1..Len(r.resources) |->
                            ParseResourceSpec(r.resources[i])]
        default_context == IF r.context # NoFlag THEN r.context ELSE clients[1]
        default_namespace == IF r.namespace # NoFlag THEN r.namespace ELSE "default"
    IN  IF \E i \in 1..Len(parsed_specs) : ~parsed_specs[i].ok
        THEN Fail(r, "Failed to parse resource")
        ELSE IF ContextGivenTwice(r, parsed_specs)
        THEN Fail(r, "Cannot use both --context flag and context in resource spec")
        ELSE IF /\ r.namespace # NoFlag
                /\ \E i \in 1..Len(parsed_specs) : parsed_specs[i].namespace # NoFlag
        THEN Fail(r, "Cannot use both --namespace flag and namespace in resource spec")
        ELSE IF r.context = NoFlag /\ clients = <<>>
        THEN Fail(r, "No context available")
        ELSE [r EXCEPT !.pc = "group", !.clients = clients,
                       !.default_context = default_context,
                       !.default_namespace = default_namespace,
                       !.parsed_specs = parsed_specs,
                       !.grouped = Grouped(r, parsed_specs, default_context,
                                           default_namespace)]

resolverFrame == <<container, tail, use_tui, labelled, grep, tasks, supVars,
                   logVars, tuiVars, envVars, stdout>>

ParseResources ==
    /\ resolver.pc = "parse"
    /\ IF resolver.resources = <<>> /\ resolver.selector = NoFlag
       THEN resolver' = Fail(resolver, "Must specify at least one resource or a label selector")
       ELSE IF ~(ContextsToInit(resolver) \subseteq KubeconfigContexts)
       THEN resolver' = Fail(resolver, "Context not found in kubeconfig")
       ELSE \E clients \in (IF ContextsToInit(resolver) = {}
                            THEN {<<CtxCluster>>}
                            ELSE Orderings(ContextsToInit(resolver))) :
                resolver' = ParsedWith(resolver, clients)
    /\ UNCHANGED resolverFrame

\* `for ((ctx, ns), specs) in grouped`: the next group, in any order, and the
\* lookup of its client.
NextGroup ==
    /\ resolver.pc = "group"
    /\ IF resolver.grouped = {}
       THEN resolver' = [resolver EXCEPT !.pc = "done"]
       ELSE \E g \in resolver.grouped :
                resolver' =
                    IF g.context \notin SeqToSet(resolver.clients)
                    THEN Fail(resolver, "No client found for context")
                    ELSE [resolver EXCEPT !.pc = "resolve",
                                          !.grouped = @ \ {g},
                                          !.group = g, !.i = 1,
                                          !.label_selectors = <<>>,
                                          !.explicit_pods = {}]
    /\ UNCHANGED resolverFrame

\* The arm `Err(e)` of the match on get_selector_from_resource that ends the
\* resolution.
OnSelectorErrorFail(r, spec) == Fail(r, "Could not get selector")

\* The arm `Err(e)`: warn!(".. Will wait for it to appear.") and go on.
OnSelectorError(r, spec) ==
    [r EXCEPT !.log = Append(@, [level |-> "warn", kind |-> KindOf(spec),
                                 name |-> spec.name])]

\* A test of the kind that no kind passes.
IsPodKindNever(kind) == FALSE

\* The arm `Ok(None)`: `if kind == "pod"`.
IsPodKind(kind) == kind = "pod"

\* The body of `for spec in specs` for the result `answer` of
\* get_selector_from_resource.
Resolved(r, spec, answer) ==
    LET kind == KindOf(spec)
        seen == [r EXCEPT !.i = @ + 1,
                          !.fetched = Append(@, [context |-> r.group.context,
                                                 namespace |-> r.group.namespace,
                                                 kind |-> kind, name |-> spec.name,
                                                 tag |-> answer.tag,
                                                 sel |-> answer.sel])]
    IN  CASE answer.tag = "Some" ->
                IF SelectorToLabelsString(answer.sel) # NoFlag
                THEN [seen EXCEPT !.label_selectors =
                                    Append(@, SelectorToLabelsString(answer.sel))]
                ELSE [seen EXCEPT !.log =
                                    Append(@, [level |-> "debug", kind |-> kind,
                                               name |-> spec.name])]
          [] answer.tag = "None" ->
                IF IsPodKind(kind)
                THEN [seen EXCEPT !.explicit_pods = @ \cup {spec.name}]
                ELSE seen
          [] OTHER -> OnSelectorError(seen, spec)

ResolveResource ==
    /\ resolver.pc = "resolve"
    /\ resolver.i <= Len(resolver.group.specs)
    /\ LET spec == resolver.group.specs[resolver.i]
       IN  \E answer \in GetSelectorFromResource(KindOf(spec)) :
                resolver' = Resolved(resolver, spec, answer)
    /\ UNCHANGED resolverFrame

\* After the group's last reference: the --selector is added to the default
\* group, and the group's WatchConfig is pushed.
BuildWatchConfig ==
    /\ resolver.pc = "resolve"
    /\ resolver.i > Len(resolver.group.specs)
    /\ LET label_selectors ==
                IF /\ resolver.group.context = resolver.default_context
                   /\ resolver.group.namespace = resolver.default_namespace
                   /\ resolver.selector # NoFlag
                THEN Append(resolver.label_selectors, resolver.selector)
                ELSE resolver.label_selectors
       IN  resolver' =
                [resolver EXCEPT !.pc = "group", !.group = NoGroup, !.i = 0,
                                 !.label_selectors = <<>>, !.explicit_pods = {},
                                 !.configs =
                                    Append(@, [context |-> resolver.group.context,
                                               namespace |-> resolver.group.namespace,
                                               label_selectors |-> label_selectors,
                                               explicit_pods |-> resolver.explicit_pods])]
    /\ UNCHANGED resolverFrame

\* The elements of a set one after the other; the watchers of one WatchConfig
\* run concurrently, so the order in which they are spawned has no effect.
RECURSIVE SetToSeq(_)
SetToSeq(S) ==
    IF S = {} THEN <<>>
    ELSE LET x == CHOOSE y \in S : TRUE IN <<x>> \o SetToSeq(S \ {x})

\* spawn_all_watchers, one WatchConfig: a watcher per element of
\* label_selectors, then one per element of explicit_pods.
WatchersOf(config, clients) ==
    IF config.context \notin SeqToSet(clients)
    THEN <<>>
    ELSE [i \in 1..Len(config.label_selectors) |->
                [context |-> config.context, namespace |-> config.namespace,
                 kind |-> "labels", selector |-> config.label_selectors[i]]]
         \o [i \in 1..Cardinality(config.explicit_pods) |->
                [context |-> config.context, namespace |-> config.namespace,
                 kind |-> "fields",
                 selector |-> "metadata.name=" \o SetToSeq(config.explicit_pods)[i]]]

RECURSIVE SpawnedWatchers(_, _)
SpawnedWatchers(configs, clients) ==
    IF configs = <<>> THEN <<>>
    ELSE WatchersOf(Head(configs), clients) \o SpawnedWatchers(Tail(configs), clients)

\* The watcher tasks whose events the model follows: the label watcher of
\* app=web and the name-pinned watcher of my-pod, both in the current context
\* and the namespace "default".
WatcherSpec(w) ==
    [context |-> CtxCluster, namespace |-> CtxNamespace,
     kind |-> IF w = "pod" THEN "fields" ELSE "labels",
     selector |-> IF w = "pod" THEN "metadata.name=my-pod" ELSE "app=web"]

\* run_stdout_mode: `Regex::new(pattern)` is Err, error! and exit(1).
\* run_tui_mode does not read cli.grep.
InvalidGrep == ~use_tui /\ grep # NoFlag /\ ~RegexOk(grep)

\* main calls run_stdout_mode or run_tui_mode, which set up their presenter
\* and call spawn_all_watchers.
SpawnAllWatchers ==
    /\ resolver.pc = "done"
    /\ IF InvalidGrep
       THEN /\ resolver' = Fail(resolver, "Invalid regex pattern")
            /\ UNCHANGED watchers
       ELSE LET spawned == SpawnedWatchers(resolver.configs, resolver.clients)
            IN  /\ resolver' = [resolver EXCEPT !.pc = "spawned",
                                                !.spawned = spawned]
                /\ watchers' = [w \in Watchers |->
                                    IF WatcherSpec(w) \in SeqToSet(spawned)
                                    THEN IdleWatcher ELSE AbsentWatcher]
    /\ UNCHANGED <<container, tail, use_tui, labelled, grep, tasks, handles,
                   events_left, observed, logVars, tuiVars, envVars, stdout>>

\* The resolver's state when spawn_all_watchers has returned for the
\* invocation `my-pod` (started = {"pod"}) or `-l app=web my-pod`.
ResolvedFor(started) ==
    LET selector == IF "selector" \in started THEN "app=web" ELSE NoFlag
        spec == ParseResourceSpec(<<"my-pod">>)
        configs == <<[context |-> CtxCluster, namespace |-> CtxNamespace,
                      label_selectors |-> IF selector = NoFlag THEN <<>>
                                          ELSE <<selector>>,
                      explicit_pods |-> {"my-pod"}]>>
    IN  [NewResolver(<<<<"my-pod">>>>, selector, NoFlag, NoFlag)
            EXCEPT !.pc = "spawned", !.clients = <<CtxCluster>>,
                   !.default_context = CtxCluster,
                   !.default_namespace = CtxNamespace,
                   !.parsed_specs = <<spec>>,
                   !.fetched = <<[context |-> CtxCluster,
                                  namespace |-> CtxNamespace,
                                  kind |-> "pod", name |-> "my-pod",
                                  tag |-> "None", sel |-> NoFlag]>>,
                   !.configs = configs,
                   !.spawned = SpawnedWatchers(configs, <<CtxCluster>>)]

\* ---------------------------------------------------------------- TUI App

\* A KeyEvent: key.code, the character of a KeyCode::Char, and whether
\* key.modifiers is KeyModifiers::CONTROL.
Key(code) == [code |-> code, c |-> "", ctrl |-> FALSE]

CharKey(c) == [code |-> "Char", c |-> c, ctrl |-> FALSE]

CtrlKey(c) == [code |-> "Char", c |-> c, ctrl |-> TRUE]

\* The characters with a binding in Normal mode, and one without ("1").
KeyChars == {"q", "Q", "c", "s", "p", "a", "t", "x", "/", "f", "?", "n", "N",
             " ", "1"}

\* The other key codes with a binding, and one without (Tab).
KeyCodes == {"Esc", "Enter", "Backspace", "Up", "Down", "PageUp", "PageDown",
             "Home", "End", "Tab"}

Keys == {CharKey(c) : c \in KeyChars} \cup {CtrlKey("c"), CtrlKey("q")}
            \cup {Key(code) : code \in KeyCodes}

\* An entry of sidebar_item_keys that is None: a header row.
NoKey == PodKey("", "", "", "")

\* msg.line as characters.
LineChars(msg) ==
    IF msg.kind = "Log" THEN <<"L", <<"1", "2", "3", "4">>[msg.line]>> ELSE <<>>

\* A LogMessage of my-pod/app with the i-th line.
AppMsg(i) ==
    [kind |-> "Log", task |-> 0, pod |-> "my-pod", container |-> "app",
     line |-> i, seq |-> i, attempt |-> 0]

\* Case folding of the (?i) flag.
Lower(c) ==
    CASE c = "L" -> "l"
      [] c = "N" -> "n"
      [] c = "Q" -> "q"
      [] OTHER -> c

\* The atoms of a pattern of literal characters and `?`: a `?` makes the
\* character before it optional, a second `?` (lazy) changes no match.
RECURSIVE Atoms(_)
Atoms(p) ==
    IF p = <<>> THEN <<>>
    ELSE LET marks == IF Len(p) >= 3 /\ p[2] = "?" /\ p[3] = "?" THEN 2
                      ELSE IF Len(p) >= 2 /\ p[2] = "?" THEN 1
                      ELSE 0
         IN  <<[c |-> p[1], opt |-> marks > 0]>>
                \o Atoms(SubSeq(p, 2 + marks, Len(p)))

\* Regex::new(&format!("(?i){}", pattern)) is Ok: a `?` needs an expression
\* before it.
PatternOk(p) == p = <<>> \/ p[1] # "?"

RECURSIVE MatchFrom(_, _, _)
MatchFrom(atoms, text, i) ==
    IF atoms = <<>> THEN TRUE
    ELSE \/ /\ i <= Len(text)
            /\ Lower(text[i]) = Lower(Head(atoms).c)
            /\ MatchFrom(Tail(atoms), text, i + 1)
         \/ /\ Head(atoms).opt
            /\ MatchFrom(Tail(atoms), text, i)

\* regex.is_match(&msg.line) for the case-insensitive regex of a valid pattern.
PatternMatches(p, text) ==
    \E i \in 1..(Len(text) + 1) : MatchFrom(Atoms(p), text, i)

\* usize::saturating_sub.
SaturatingSub(a, b) == IF a < b THEN 0 ELSE a - b

\* App::new(max_buffer_size). sidebar_selected is sidebar_state.selected()
\* being Some; pod_states maps a key to its PodState.
NewApp(max_buffer_size) ==
    [log_buffer |-> <<>>, max_buffer_size |-> max_buffer_size,
     pods |-> <<>>, pod_states |-> [k \in {} |-> [enabled |-> TRUE]],
     sidebar_visible |-> FALSE, sidebar_selected |-> FALSE,
     scroll_offset |-> 0, auto_scroll |-> TRUE,
     search_pattern |-> <<>>, search_matches |-> <<>>, current_match_index |-> 0,
     filter_pattern |-> <<>>,
     mode |-> "Normal", help_visible |-> FALSE, paused |-> FALSE,
     show_timestamps |-> FALSE, show_prefix |-> TRUE]

\* An add_log loop that evicts nothing.
EvictFrontNever(a) == a

\* add_log's loop `while self.log_buffer.len() >= self.max_buffer_size`.
RECURSIVE EvictFront(_)
EvictFront(a) ==
    IF Len(a.log_buffer) >= a.max_buffer_size
    THEN EvictFront([a EXCEPT !.log_buffer = Tail(@),
                              !.scroll_offset = SaturatingSub(@, 1)])
    ELSE a

\* An add_log that ignores `paused`.
AddLogAlways(a, msg) ==
    LET b == EvictFront(a)
        c == [b EXCEPT !.log_buffer = Append(@, msg)]
    IN  IF c.auto_scroll
        THEN [c EXCEPT !.scroll_offset = SaturatingSub(Len(c.log_buffer), 1)]
        ELSE c

\* App::add_log.
AddLog(a, msg) == IF a.paused THEN a ELSE AddLogAlways(a, msg)

\* An add_pod that inserts a fresh PodState whether or not the key is known.
AddPodFresh(a, info) ==
    LET known == \E i \in 1..Len(a.pods) : a.pods[i].key = info.key
        states == [k \in DOMAIN a.pod_states \cup {info.key} |->
                    [enabled |-> TRUE]]
    IN  IF known
        THEN [a EXCEPT !.pod_states = states,
                       !.pods = [i \in 1..Len(a.pods) |->
                            IF a.pods[i].key = info.key THEN info ELSE a.pods[i]]]
        ELSE [a EXCEPT !.pod_states = states,
                       !.pods = Append(@, info),
                       !.sidebar_selected =
                            @ \/ (a.sidebar_visible /\ Len(a.pods) = 0)]

\* App::add_pod: pod_states gets the key, enabled, if it is new; pods replaces
\* the entry of an existing key, else pushes (and selects the first sidebar
\* item when the sidebar is visible, nothing is selected and this is the only
\* pod).
AddPod(a, info) ==
    LET known == \E i \in 1..Len(a.pods) : a.pods[i].key = info.key
        states == [k \in DOMAIN a.pod_states \cup {info.key} |->
                    IF k \in DOMAIN a.pod_states THEN a.pod_states[k]
                    ELSE [enabled |-> TRUE]]
    IN  IF known
        THEN [a EXCEPT !.pod_states = states,
                       !.pods = [i \in 1..Len(a.pods) |->
                            IF a.pods[i].key = info.key THEN info ELSE a.pods[i]]]
        ELSE [a EXCEPT !.pod_states = states,
                       !.pods = Append(@, info),
                       !.sidebar_selected =
                            @ \/ (a.sidebar_visible /\ Len(a.pods) = 0)]

\* App::remove_pod: pods.retain(|p| &p.key != key); pod_states.remove(key).
RemovePod(a, key) ==
    [a EXCEPT !.pods = SelectSeq(@, LAMBDA p : p.key # key),
              !.pod_states = [k \in DOMAIN @ \ {key} |-> @[k]]]

\* App::toggle_sidebar_item with the selection on `item`: a container row
\* flips the enabled flag of its key; a header row expands or collapses.
ToggleSidebarItem(a, item) ==
    IF a.sidebar_selected /\ item \in DOMAIN a.pod_states
    THEN [a EXCEPT !.pod_states[item].enabled = ~@]
    ELSE a

\* The key of the pod a message is from.
MsgKey(msg) == PodKey(CtxCluster, CtxNamespace, msg.pod, msg.container)

\* App::filtered_logs: the messages of enabled pods that match the filter
\* pattern, if one is set and compiles.
FilteredLogs(a) ==
    LET filtering == a.filter_pattern # <<>> /\ PatternOk(a.filter_pattern)
        enabled(msg) == IF MsgKey(msg) \in DOMAIN a.pod_states
                        THEN a.pod_states[MsgKey(msg)].enabled ELSE TRUE
        keep(msg) == /\ enabled(msg)
                     /\ filtering => PatternMatches(a.filter_pattern, LineChars(msg))
    IN  SelectSeq(a.log_buffer, keep)

\* The 0-based positions of the messages of `logs`, from the n-th on, that
\* match the pattern.
RECURSIVE MatchIndices(_, _, _)
MatchIndices(p, logs, n) ==
    IF n > Len(logs) THEN <<>>
    ELSE (IF PatternMatches(p, LineChars(logs[n])) THEN <<n - 1>> ELSE <<>>)
            \o MatchIndices(p, logs, n + 1)

\* App::update_search_matches.
UpdateSearchMatches(a) ==
    IF a.search_pattern = <<>> \/ ~PatternOk(a.search_pattern)
    THEN [a EXCEPT !.search_matches = <<>>]
    ELSE [a EXCEPT !.search_matches = MatchIndices(a.search_pattern, FilteredLogs(a), 1),
                   !.current_match_index = 0]

\* App::jump_to_next_match.
JumpToNextMatch(a) ==
    IF a.search_matches = <<>> THEN a
    ELSE LET index == (a.current_match_index + 1) % Len(a.search_matches)
         IN  [a EXCEPT !.current_match_index = index,
                       !.scroll_offset = a.search_matches[index + 1],
                       !.auto_scroll = FALSE]

\* App::jump_to_prev_match.
JumpToPrevMatch(a) ==
    IF a.search_matches = <<>> THEN a
    ELSE LET index == IF a.current_match_index = 0
                      THEN Len(a.search_matches) - 1
                      ELSE a.current_match_index - 1
         IN  [a EXCEPT !.current_match_index = index,
                       !.scroll_offset = a.search_matches[index + 1],
                       !.auto_scroll = FALSE]

\* App::scroll_up.
ScrollUp(a) ==
    [a EXCEPT !.scroll_offset = SaturatingSub(@, 1), !.auto_scroll = FALSE]

\* App::scroll_down.
ScrollDown(a) ==
    IF a.scroll_offset < SaturatingSub(Len(a.log_buffer), 1)
    THEN [a EXCEPT !.scroll_offset = @ + 1]
    ELSE [a EXCEPT !.auto_scroll = TRUE]

\* The page size handle_normal_mode passes to page_up and page_down.
PageSize == 20

\* App::page_up.
PageUp(a, page_size) ==
    [a EXCEPT !.scroll_offset = SaturatingSub(@, page_size), !.auto_scroll = FALSE]

\* App::page_down.
PageDown(a, page_size) ==
    LET max_offset == SaturatingSub(Len(a.log_buffer), 1)
        offset == Min(a.scroll_offset + page_size, max_offset)
    IN  [a EXCEPT !.scroll_offset = offset,
                  !.auto_scroll = IF offset >= max_offset THEN TRUE ELSE @]

\* App::scroll_to_top.
ScrollToTop(a) == [a EXCEPT !.scroll_offset = 0, !.auto_scroll = FALSE]

\* App::scroll_to_bottom.
ScrollToBottom(a) ==
    [a EXCEPT !.scroll_offset = SaturatingSub(Len(a.log_buffer), 1),
              !.auto_scroll = TRUE]

\* A clear_logs that leaves scroll_offset alone.
ClearLogsKeepOffset(a) ==
    [a EXCEPT !.log_buffer = <<>>, !.search_matches = <<>>]

\* App::clear_logs.
ClearLogs(a) ==
    [a EXCEPT !.log_buffer = <<>>, !.scroll_offset = 0, !.search_matches = <<>>]

\* The result of handle_key_event: the App it leaves and the bool it returns.
KeyResult(a, continue) == [app |-> a, continue |-> continue]

\* handle_normal_mode's first arm: q, Q (any modifiers) or c with CONTROL.
QuitKey(key) ==
    /\ key.code = "Char"
    /\ key.c \in {"q", "Q"} \/ (key.c = "c" /\ key.ctrl)

\* handle_normal_mode; `item` is the sidebar row the selection is on.
\* events.rs calls app.toggle_pod(), which app.rs does not define; it is taken
\* to be toggle_sidebar_item.
HandleNormalMode(a, key, item) ==
    IF QuitKey(key) THEN KeyResult(a, FALSE)
    ELSE KeyResult(
        IF key.code = "Char"
        THEN CASE key.c = "s" -> [a EXCEPT !.sidebar_visible = ~@]
               [] key.c = "p" -> [a EXCEPT !.paused = ~@]
               [] key.c = "c" -> ClearLogs(a)
               [] key.c = "a" -> [a EXCEPT !.auto_scroll = ~@]
               [] key.c = "t" -> [a EXCEPT !.show_timestamps = ~@]
               [] key.c = "x" -> [a EXCEPT !.show_prefix = ~@]
               [] key.c = "/" -> [a EXCEPT !.mode = "Search", !.search_pattern = <<>>]
               [] key.c = "f" -> [a EXCEPT !.mode = "Filter", !.filter_pattern = <<>>]
               [] key.c = "?" -> [a EXCEPT !.help_visible = ~@,
                                           !.mode = IF ~a.help_visible THEN "Help" ELSE @]
               [] key.c = "n" -> JumpToNextMatch(a)
               [] key.c = "N" -> JumpToPrevMatch(a)
               [] key.c = " " /\ a.sidebar_visible -> ToggleSidebarItem(a, item)
               [] OTHER -> a
        ELSE CASE key.code = "Up" ->
                    IF a.sidebar_visible /\ a.sidebar_selected THEN a ELSE ScrollUp(a)
               [] key.code = "Down" ->
                    IF a.sidebar_visible /\ a.sidebar_selected THEN a ELSE ScrollDown(a)
               [] key.code = "PageUp" -> PageUp(a, PageSize)
               [] key.code = "PageDown" -> PageDown(a, PageSize)
               [] key.code = "Home" -> ScrollToTop(a)
               [] key.code = "End" -> ScrollToBottom(a)
               [] OTHER -> a,
        TRUE)

\* String::pop.
Pop(p) == IF p = <<>> THEN p ELSE SubSeq(p, 1, Len(p) - 1)

\* A search mode in which Ctrl-C quits.
HandleSearchModeQuits(a, key) ==
    IF QuitKey(key) /\ key.ctrl THEN KeyResult(a, FALSE)
    ELSE KeyResult(
        CASE key.code = "Esc" ->
                [a EXCEPT !.mode = "Normal", !.search_pattern = <<>>,
                          !.search_matches = <<>>]
          [] key.code = "Enter" -> UpdateSearchMatches([a EXCEPT !.mode = "Normal"])
          [] key.code = "Char" -> [a EXCEPT !.search_pattern = Append(@, key.c)]
          [] key.code = "Backspace" -> [a EXCEPT !.search_pattern = Pop(@)]
          [] OTHER -> a,
        TRUE)

\* handle_search_mode.
HandleSearchMode(a, key) ==
    KeyResult(
        CASE key.code = "Esc" ->
                [a EXCEPT !.mode = "Normal", !.search_pattern = <<>>,
                          !.search_matches = <<>>]
          [] key.code = "Enter" -> UpdateSearchMatches([a EXCEPT !.mode = "Normal"])
          [] key.code = "Char" -> [a EXCEPT !.search_pattern = Append(@, key.c)]
          [] key.code = "Backspace" -> [a EXCEPT !.search_pattern = Pop(@)]
          [] OTHER -> a,
        TRUE)

\* handle_filter_mode.
HandleFilterMode(a, key) ==
    KeyResult(
        CASE key.code = "Esc" -> [a EXCEPT !.mode = "Normal", !.filter_pattern = <<>>]
          [] key.code = "Enter" -> [a EXCEPT !.mode = "Normal"]
          [] key.code = "Char" -> [a EXCEPT !.filter_pattern = Append(@, key.c)]
          [] key.code = "Backspace" -> [a EXCEPT !.filter_pattern = Pop(@)]
          [] OTHER -> a,
        TRUE)

\* A help mode that leaves help_visible set.
HandleHelpModeKeepVisible(a, key) == KeyResult([a EXCEPT !.mode = "Normal"], TRUE)

\* handle_help_mode.
HandleHelpMode(a, key) ==
    KeyResult([a EXCEPT !.help_visible = FALSE, !.mode = "Normal"], TRUE)

\* handle_key_event.
HandleKeyEvent(a, key, item) ==
    CASE a.mode = "Normal" -> HandleNormalMode(a, key, item)
      [] a.mode = "Search" -> HandleSearchMode(a, key)
      [] a.mode = "Filter" -> HandleFilterMode(a, key)
      [] a.mode = "Help" -> HandleHelpMode(a, key)

\* ---------------------------------------------------------------- Init

\* The state when spawn_all_watchers has returned, for the CLI inputs and the
\* server behaviour drawn from the given sets.
InitWith(started_sets, filters, tails, tuis, events, opens, lines) ==
    /\ container \in filters
    /\ tail \in tails
    /\ use_tui \in tuis
    /\ handles = [k \in AllKeys |-> <<>>]
    /\ tasks = <<>>
    /\ \E started \in started_sets :
        /\ watchers = [w \in Watchers |->
                        IF w \in started THEN IdleWatcher ELSE AbsentWatcher]
        /\ resolver = ResolvedFor(started)
    /\ labelled = Pods
    /\ grep = NoFlag
    /\ stdout = <<>>
    /\ bus = <<>>
    /\ bus_closed = FALSE
    /\ fwd = NoMsg
    /\ event_ch = <<>>
    /\ event_closed = FALSE
    /\ app = NewApp(BufferSize)
    /\ presented = <<>>
    /\ events_left = events
    /\ opens_left = opens
    /\ server_log = LogLines(lines)
    /\ observed = [p \in Pods |-> [phase |-> "None", spec |-> <<>>]]

Init == InitWith(WatcherSets, ContainerFilters, TailOptions, BOOLEAN,
                 SupEvents, FollowOpens, FollowLines)

\* ---------------------------------------------------------------- channels

\* A channel that hands out the newest message first.
ChanSendFront(q, e) == <<e>> \o q

\* mpsc::Sender::send on an open channel with room: the message is queued
\* behind the pending ones.
ChanSend(q, e) == Append(q, e)

\* A channel without a capacity.
ChanHasRoomAlways(q, capacity) == TRUE

\* mpsc::channel(capacity): a send completes only while fewer than `capacity`
\* messages are pending.
ChanHasRoom(q, capacity) == Len(q) < capacity

\* ---------------------------------------------------------------- supervisor

BaseKey(pod_name) == PodKey(CtxCluster, CtxNamespace, pod_name, "")

\* stop_tailing_pod: the handle map without the entries of the pod.
StopHandles(base_key) ==
    [k \in AllKeys |-> IF SamePod(k, base_key) THEN <<>> ELSE handles[k]]

\* stop_tailing_pod: the handles of the removed entries.
StopTargets(base_key) ==
    UNION {SeqToSet(handles[k]) : k \in {j \in AllKeys : SamePod(j, base_key)}}

\* stop_tailing_pod: handle.abort() for every removed handle.
StopTasks(base_key) ==
    [i \in 1..Len(tasks) |->
        IF i \in StopTargets(base_key) THEN AbortTask(tasks[i]) ELSE tasks[i]]

\* HashMap::insert(key, vec![handle]): replaces the entry of an existing key.
InsertHandle(key, handle) == [handles EXCEPT ![key] = <<handle>>]

\* The handler of one watch event returns: the watcher awaits the next event.
Handled(w, pod, phase, spec) ==
    /\ watchers' = [watchers EXCEPT ![w] = IdleWatcher]
    /\ observed' = [observed EXCEPT ![pod] = [phase |-> phase, spec |-> spec]]

\* The order in which a pod goes through its phases.
PhaseRank(phase) ==
    CASE phase = "Pending" -> 1
      [] phase = "Running" -> 2
      [] OTHER -> 3

\* An Apply event of a pod that the server's rules allow after the event
\* handled last: until it is deleted a pod keeps its containers and never goes
\* back to an earlier phase.
Follows(prev, phase, spec) ==
    prev.phase \in {"None", "Deleted"}
        \/ (spec = prev.spec /\ PhaseRank(phase) >= PhaseRank(prev.phase))

\* watch_pods receives Event::Apply / Event::InitApply; handle_pod_event up to
\* drop(guard): the was_tracking lookup under the lock and the choice of branch.
ReceiveApplyOf(w, lifecycle) ==
    /\ watchers[w].pc = "idle"
    /\ events_left > 0
    /\ \E pod \in WatcherPods(w), phase \in Phases, spec \in ContainerLists :
        /\ lifecycle => Follows(observed[pod], phase, spec)
        /\ LET is_running == phase = "Running"
               was_tracking == WasTracking(BaseKey(pod))
               ev == [IdleWatcher EXCEPT !.pod = pod, !.phase = phase, !.spec = spec]
           IN  IF ~was_tracking /\ (is_running \/ phase = "Pending")
               THEN /\ watchers' = [watchers EXCEPT ![w] = [ev EXCEPT !.pc = "spawn"]]
                    /\ UNCHANGED observed
               ELSE IF was_tracking /\ ~is_running
               THEN /\ watchers' = [watchers EXCEPT ![w] = [ev EXCEPT !.pc = "stop"]]
                    /\ UNCHANGED observed
               ELSE Handled(w, pod, phase, spec)
    /\ events_left' = events_left - 1
    /\ UNCHANGED <<handles, tasks, logVars, tuiVars, cliVars, envVars, stdout>>

\* Any Apply event, whatever the pod was seen as before.
ReceiveApply(w) == ReceiveApplyOf(w, FALSE)

\* Only the Apply events a pod's life can produce.
ReceiveApplyInOrder(w) == ReceiveApplyOf(w, TRUE)

\* handle_pod_event awaiting spawn_tail_tasks_for_pod: with a container filter
\* one task for the filter's name; without, a GET of the pod and one task per
\* container it reports (none when the GET fails).
SpawnTasks(w, gets) ==
    /\ watchers[w].pc = "spawn"
    /\ \E got \in (IF container # NoFilter THEN {<<container>>} ELSE gets) :
        LET names == IF got = GetErr THEN <<>> ELSE got
            first == Len(tasks)
            pod_handles == [i \in 1..Len(names) |-> first + i]
            n == Min(Len(pod_handles), Len(watchers[w].spec))
        IN  /\ Len(tasks) + Len(names) <= MaxTasks
            /\ tasks' = tasks \o [i \in 1..Len(names) |->
                                    NewTask(watchers[w].pod, names[i])]
            /\ IF n = 0
               THEN Handled(w, watchers[w].pod, watchers[w].phase, watchers[w].spec)
               ELSE /\ watchers' = [watchers EXCEPT ![w].pc = "insert",
                                        ![w].pod_handles = pod_handles, ![w].idx = 1]
                    /\ UNCHANGED observed
    /\ UNCHANGED <<handles, events_left, logVars, tuiVars, cliVars, envVars, stdout>>

\* The GET may fail, and may report a pod of the same name with other
\* containers than the watch event did (the pod was replaced in between).
SpawnTailTasksForPod(w) == SpawnTasks(w, ContainerLists \cup {GetErr})

\* The GET reports the pod as the watch event did.
SpawnTailTasksForPodSynced(w) == SpawnTasks(w, {watchers[w].spec})

\* The end of one iteration of `for (handle, container) in
\* pod_handles.iter().zip(&spec.containers)`.
NextInsert(w) ==
    IF watchers[w].idx < Min(Len(watchers[w].pod_handles), Len(watchers[w].spec))
    THEN /\ watchers' = [watchers EXCEPT ![w].pc = "insert", ![w].idx = @ + 1]
         /\ UNCHANGED observed
    ELSE Handled(w, watchers[w].pod, watchers[w].phase, watchers[w].spec)

\* handles.lock().await.insert(key, vec![handle]) for the next zipped pair.
InsertPodHandle(w) ==
    /\ watchers[w].pc = "insert"
    /\ LET i == watchers[w].idx
           key == PodKey(CtxCluster, CtxNamespace, watchers[w].pod, watchers[w].spec[i])
       IN  handles' = InsertHandle(key, watchers[w].pod_handles[i])
    /\ IF use_tui
       THEN /\ watchers' = [watchers EXCEPT ![w].pc = "notify"]
            /\ UNCHANGED observed
       ELSE NextInsert(w)
    /\ UNCHANGED <<events_left, tasks, logVars, tuiVars, cliVars, envVars, stdout>>

\* TUI mode: tx.send(AppEvent::PodUpdate(.. Added ..)).await, result ignored.
NotifyAdded(w) ==
    /\ watchers[w].pc = "notify"
    /\ LET key == PodKey(CtxCluster, CtxNamespace, watchers[w].pod,
                         watchers[w].spec[watchers[w].idx])
           update == [type |-> "PodUpdate", event_type |-> "Added", key |-> key,
                      phase |-> watchers[w].phase]
       IN  \/ /\ event_closed
              /\ UNCHANGED event_ch
           \/ /\ ~event_closed
              /\ ChanHasRoom(event_ch, EventCap)
              /\ event_ch' = ChanSend(event_ch, update)
    /\ NextInsert(w)
    /\ UNCHANGED <<handles, events_left, tasks, logVars, event_closed,
                   app, cliVars, envVars, stdout>>

\* handle_pod_event's second branch: stop_tailing_pod(&base_key, handles).
StopTailingPod(w) ==
    /\ watchers[w].pc = "stop"
    /\ LET base_key == BaseKey(watchers[w].pod)
       IN  /\ handles' = StopHandles(base_key)
           /\ tasks' = StopTasks(base_key)
    /\ Handled(w, watchers[w].pod, watchers[w].phase, watchers[w].spec)
    /\ UNCHANGED <<events_left, logVars, tuiVars, cliVars, envVars, stdout>>

\* watch_pods receives Event::Delete: stop_tailing_pod with the pod's base key.
ReceiveDelete(w) ==
    /\ watchers[w].pc = "idle"
    /\ events_left > 0
    /\ \E pod \in WatcherPods(w) :
        LET base_key == BaseKey(pod)
        IN  /\ handles' = StopHandles(base_key)
            /\ tasks' = StopTasks(base_key)
            /\ observed' = [observed EXCEPT ![pod] =
                    [phase |-> "Deleted", spec |-> <<>>]]
            /\ watchers' = [watchers EXCEPT ![w] =
                    IF use_tui
                    THEN [IdleWatcher EXCEPT !.pc = "notify_deleted", !.pod = pod]
                    ELSE IdleWatcher]
    /\ events_left' = events_left - 1
    /\ UNCHANGED <<logVars, tuiVars, cliVars, envVars, stdout>>

\* TUI mode: tx.send(AppEvent::PodUpdate(.. Deleted(key) ..)).await, result ignored.
NotifyDeleted(w) ==
    /\ watchers[w].pc = "notify_deleted"
    /\ LET update == [type |-> "PodUpdate", event_type |-> "Deleted",
                      key |-> BaseKey(watchers[w].pod), phase |-> "Deleted"]
       IN  \/ /\ event_closed
              /\ UNCHANGED event_ch
           \/ /\ ~event_closed
              /\ ChanHasRoom(event_ch, EventCap)
              /\ event_ch' = ChanSend(event_ch, update)
    /\ watchers' = [watchers EXCEPT ![w] = IdleWatcher]
    /\ UNCHANGED <<handles, events_left, observed, tasks, logVars,
                   event_closed, app, cliVars, envVars, stdout>>

\* watch_pods: stream.try_next().await? on an Err item returns the error; the
\* spawned closure logs "stopped" and the watcher task ends.
WatchError(w) ==
    /\ watchers[w].pc = "idle"
    /\ watchers' = [watchers EXCEPT ![w].pc = "stopped"]
    /\ UNCHANGED <<handles, events_left, observed, tasks, logVars,
                   tuiVars, cliVars, envVars, stdout>>

\* ---------------------------------------------------------------- follow task

\* A LogEvent as a follow task builds it; `task` records the sender.
LogEvent(t, kind, line, attempt) ==
    [kind |-> kind, task |-> t, pod |-> tasks[t].pod_name,
     container |-> tasks[t].container_name, line |-> line,
     seq |-> IF kind = "Log" THEN tasks[t].lines_read + 1 ELSE 0,
     attempt |-> attempt]

\* The first line a follow-log stream delivers: with tail_lines = None the
\* server sends the container's whole log, with Some(n) its last n lines.
StreamStart(tail_lines) ==
    IF tail_lines = NoTail THEN 0 ELSE Max(0, Len(server_log) - tail_lines)

\* LogParams.tail_lines of the request a task is about to make.
TailLines(task) == IF task.is_first_attempt THEN tail ELSE NoTail

\* LogParams.since_time = None (`..Default::default()`).
NoSince == "None"

\* The LogParams of the request a task is about to make.
LogParams(task) ==
    [follow |-> TRUE, container |-> task.container_name,
     tail_lines |-> TailLines(task), since_time |-> NoSince]

\* A task that abort() does not stop.
RunnableUntilReturn(task) == task.state # "returned"

\* A task runs on until it returns or its handle is aborted: tokio polls an
\* aborted task no more, whichever await it is suspended at.
Runnable(task) == task.state = "running"

\* An event as the task's record of what it sent keeps it.
Sent(e) == [kind |-> e.kind, line |-> e.line]

\* The task goes on after an await: to the next pending send, else to where the
\* code continues (the read loop resets reconnection_attempt; `return` ends it).
Resume(task) ==
    IF task.outq # <<>> THEN [task EXCEPT !.pc = "send"]
    ELSE IF task.cont = "done" THEN [task EXCEPT !.pc = "done", !.state = "returned"]
    ELSE IF task.cont = "read" THEN [task EXCEPT !.pc = "read", !.reconnection_attempt = 0]
    ELSE [task EXCEPT !.pc = task.cont]

\* A follow task that treats a 404 like any other error.
IsNotFoundNever(result) == FALSE

\* `if let kube::Error::Api(err) = &e { if err.code == 404 {`.
IsNotFound(result) == result = "NotFound404"

\* One pass of the loop head: build LogParams, await api.log_stream, and the
\* synchronous code of the arm taken up to its first send.
OpenStream(t) ==
    /\ t <= Len(tasks)
    /\ Runnable(tasks[t])
    /\ tasks[t].pc = "open"
    /\ opens_left > 0
    /\ \E result \in OpenResults :
        LET me == tasks[t]
            tail_lines == TailLines(me)
            attempt == me.reconnection_attempt + 1
            base == [me EXCEPT !.is_first_attempt = FALSE,
                               !.reconnection_attempt = attempt,
                               !.open_result = result]
            next ==
                IF result = "ok"
                THEN [base EXCEPT
                        !.outq = IF attempt > 1
                                 THEN (IF me.disconnection_time
                                       THEN <<LogEvent(t, "Gap", "", 0)>> ELSE <<>>)
                                      \o <<LogEvent(t, "Connected", "", 0)>>
                                 ELSE <<>>,
                        !.disconnection_time = IF attempt > 1 THEN FALSE ELSE @,
                        !.pos = StreamStart(tail_lines),
                        !.cont = "read"]
                ELSE IF IsNotFound(result)
                THEN [base EXCEPT
                        !.disconnection_time = TRUE,
                        !.outq = <<LogEvent(t, "Failed", "", 0)>>,
                        !.cont = "done"]
                ELSE [base EXCEPT
                        !.disconnection_time = TRUE,
                        !.outq = <<LogEvent(t, "Reconnecting", "", attempt)>>,
                        !.cont = "sleep"]
        IN  tasks' = [tasks EXCEPT ![t] = Resume(next)]
    /\ opens_left' = opens_left - 1
    /\ UNCHANGED <<supVars, logVars, tuiVars, cliVars, server_log, stdout>>

\* line_stream.next().await yields Ok(line): build the LogMessage and send it.
ReadLine(t) ==
    /\ t <= Len(tasks)
    /\ Runnable(tasks[t])
    /\ tasks[t].pc = "read"
    /\ tasks[t].pos < Len(server_log)
    /\ LET line == server_log[tasks[t].pos + 1]
       IN  tasks' = [tasks EXCEPT ![t] =
                Resume([@ EXCEPT !.pos = @ + 1,
                                 !.lines_read = @ + 1,
                                 !.outq = <<LogEvent(t, "Log", line, 0)>>,
                                 !.cont = "read"])]
    /\ UNCHANGED <<supVars, logVars, tuiVars, cliVars, envVars, stdout>>

\* line_stream.next().await yields None or Err: the stream is over; mark the
\* disconnection, send StatusChange Reconnecting { attempt: 1 }, then sleep.
StreamEnded(t) ==
    /\ t <= Len(tasks)
    /\ Runnable(tasks[t])
    /\ tasks[t].pc = "read"
    /\ tasks' = [tasks EXCEPT ![t] =
            Resume([@ EXCEPT !.disconnection_time = TRUE,
                             !.outq = <<LogEvent(t, "Reconnecting", "", 1)>>,
                             !.cont = "sleep"])]
    /\ UNCHANGED <<supVars, logVars, tuiVars, cliVars, envVars, stdout>>

\* tx.send(event).await completes: the event is queued when the channel is
\* open and has room; on a closed channel the send fails, which ends the task
\* for a Log event (`return`) and is ignored for every other event (`let _`).
SendEvent(t) ==
    /\ t <= Len(tasks)
    /\ Runnable(tasks[t])
    /\ tasks[t].pc = "send"
    /\ LET me == tasks[t]
           e == Head(me.outq)
           rest == [me EXCEPT !.outq = Tail(@)]
       IN  \/ /\ ~bus_closed
              /\ ChanHasRoom(bus, BufferSize)
              /\ bus' = ChanSend(bus, e)
              /\ tasks' = [tasks EXCEPT ![t] =
                    Resume([rest EXCEPT !.sent = Append(@, Sent(e))])]
           \/ /\ bus_closed
              /\ bus' = bus
              /\ tasks' = [tasks EXCEPT ![t] =
                    IF e.kind = "Log"
                    THEN [me EXCEPT !.pc = "done", !.state = "returned", !.outq = <<>>]
                    ELSE Resume(rest)]
    /\ UNCHANGED <<supVars, bus_closed, fwd, presented, tuiVars, cliVars, envVars, stdout>>

\* tokio::time::sleep(Duration::from_secs(5)).await completes.
Sleep(t) ==
    /\ t <= Len(tasks)
    /\ Runnable(tasks[t])
    /\ tasks[t].pc = "sleep"
    /\ tasks' = [tasks EXCEPT ![t].pc = "open"]
    /\ UNCHANGED <<supVars, logVars, tuiVars, cliVars, envVars, stdout>>

\* ---------------------------------------------------------------- consumers

\* mpsc::Receiver::recv: the oldest queued message.
ChanRecv(q) == Head(q)

\* A printer that lets every message through.
DroppedNever(regex, msg) == FALSE

\* `if let Some(ref regex) = grep_regex && !regex.is_match(&msg.line)`: the
\* message is not printed.
Dropped(regex, msg) == regex # NoFlag /\ ~IsMatch(regex, LineText(msg))

\* format!("[{}.{}/{}/{}]", cluster, namespace, pod_name, container_name) and
\* println!("{} {}", prefix, msg.line); the colour of the prefix is left out.
FormatLine(msg) ==
    "[" \o CtxCluster \o "." \o CtxNamespace \o "/" \o msg.pod \o "/" \o
        msg.container \o "]" \o " " \o LineText(msg)

\* run_stdout_mode's printer task: receive one message and print it unless
\* --grep is given and does not match its line.
PrintLog ==
    /\ ~use_tui
    /\ bus # <<>>
    /\ IF Dropped(grep, ChanRecv(bus))
       THEN UNCHANGED <<presented, stdout>>
       ELSE /\ presented' = Append(presented, ChanRecv(bus))
            /\ stdout' = Append(stdout, FormatLine(ChanRecv(bus)))
    /\ bus' = Tail(bus)
    /\ UNCHANGED <<tasks, supVars, bus_closed, fwd, tuiVars, cliVars, envVars>>

\* run_tui_mode's forwarding task: log_rx.recv().await yields a message.
ForwardRecv ==
    /\ use_tui
    /\ ~bus_closed
    /\ fwd = NoMsg
    /\ bus # <<>>
    /\ fwd' = ChanRecv(bus)
    /\ bus' = Tail(bus)
    /\ UNCHANGED <<tasks, supVars, bus_closed, presented, tuiVars, cliVars, envVars, stdout>>

\* The forwarding task's event_tx.send(AppEvent::LogMessage(msg)).await: on
\* failure it breaks out of its loop, which drops log_rx.
ForwardSend ==
    /\ fwd # NoMsg
    /\ \/ /\ ~event_closed
          /\ ChanHasRoom(event_ch, EventCap)
          /\ event_ch' = ChanSend(event_ch, [type |-> "LogMessage", msg |-> fwd])
          /\ UNCHANGED bus_closed
       \/ /\ event_closed
          /\ bus_closed' = TRUE
          /\ UNCHANGED event_ch
    /\ fwd' = NoMsg
    /\ UNCHANGED <<tasks, supVars, bus, presented, event_closed,
                   app, cliVars, envVars, stdout>>

\* The length of the run of LogMessage events at the head of the channel.
RECURSIVE LogRun(_)
LogRun(q) ==
    IF q = <<>> \/ Head(q).type # "LogMessage" THEN 0 ELSE 1 + LogRun(Tail(q))

\* app.add_log for each message of a run, oldest first.
RECURSIVE AddLogs(_, _)
AddLogs(a, msgs) ==
    IF msgs = <<>> THEN a ELSE AddLogs(AddLog(a, Head(msgs)), Tail(msgs))

\* run_tui_mode's main loop, event_rx.recv() arm: a LogMessage is added and the
\* LogMessages queued behind it are drained with try_recv (the first event of
\* another type that try_recv returns ends the drain and is dropped); a
\* PodUpdate updates the App's pods.
MainLoopRecv ==
    /\ use_tui
    /\ ~event_closed
    /\ event_ch # <<>>
    /\ LET event == ChanRecv(event_ch)
       IN  IF event.type = "LogMessage"
           THEN LET n == LogRun(event_ch)
                IN  /\ presented' = presented \o
                            [i \in 1..n |-> event_ch[i].msg]
                    /\ event_ch' = SubSeq(event_ch, Min(n + 2, Len(event_ch) + 1),
                                          Len(event_ch))
                    /\ app' = AddLogs(app, [i \in 1..n |-> event_ch[i].msg])
           ELSE /\ event_ch' = Tail(event_ch)
                /\ UNCHANGED presented
                /\ IF event.event_type = "Added"
                   THEN app' = AddPod(app, [key |-> event.key, phase |-> event.phase])
                   ELSE app' = RemovePod(app, event.key)
    /\ UNCHANGED <<tasks, supVars, bus, bus_closed, fwd, event_closed, cliVars, envVars, stdout>>

\* The main loop ends (should_quit) and run_tui_mode returns: event_rx is dropped.
TuiQuit ==
    /\ use_tui
    /\ ~event_closed
    /\ event_closed' = TRUE
    /\ UNCHANGED <<tasks, supVars, logVars, event_ch, app,
                   cliVars, envVars, stdout>>

\* run_tui_mode's main loop, AppEvent::Key arm: handle_key_event on one of
\* `keys` with the sidebar selection on any row; the loop ends when it returns
\* false. The patterns typed stay within MaxPatternLen.
AppKeyEvent(keys) ==
    /\ use_tui
    /\ ~event_closed
    /\ \E key \in keys, item \in {NoKey} \cup DOMAIN app.pod_states :
        LET result == HandleKeyEvent(app, key, item)
        IN  /\ Len(result.app.search_pattern) <= MaxPatternLen
            /\ Len(result.app.filter_pattern) <= MaxPatternLen
            /\ app' = result.app
            /\ event_closed' = ~result.continue
    /\ UNCHANGED <<tasks, supVars, logVars, event_ch, cliVars, envVars, stdout>>

\* app.add_log with the next line of my-pod/app.
AppAddLog ==
    /\ use_tui
    /\ ~event_closed
    /\ Len(presented) < AppLines
    /\ LET msg == AppMsg(Len(presented) + 1)
       IN  /\ app' = AddLog(app, msg)
           /\ presented' = Append(presented, msg)
    /\ UNCHANGED <<tasks, supVars, bus, bus_closed, fwd, event_ch, event_closed,
                   cliVars, envVars, stdout>>

\* app.add_pod with the PodInfo of a container.
AppAddPod ==
    /\ use_tui
    /\ ~event_closed
    /\ \E key \in AllKeys, phase \in Phases :
        app' = AddPod(app, [key |-> key, phase |-> phase])
    /\ UNCHANGED <<tasks, supVars, logVars, event_ch, event_closed,
                   cliVars, envVars, stdout>>

\* app.remove_pod with the key of a container.
AppRemovePod ==
    /\ use_tui
    /\ ~event_closed
    /\ \E key \in AllKeys : app' = RemovePod(app, key)
    /\ UNCHANGED <<tasks, supVars, logVars, event_ch, event_closed,
                   cliVars, envVars, stdout>>

\* ---------------------------------------------------------------- specification

Next ==
    \/ \E w \in Watchers : ReceiveApply(w)
    \/ \E w \in Watchers : SpawnTailTasksForPod(w)
    \/ \E w \in Watchers : InsertPodHandle(w)
    \/ \E w \in Watchers : NotifyAdded(w)
    \/ \E w \in Watchers : StopTailingPod(w)
    \/ \E w \in Watchers : ReceiveDelete(w)
    \/ \E w \in Watchers : NotifyDeleted(w)
    \/ \E w \in Watchers : WatchError(w)
    \/ \E t \in TaskIds : OpenStream(t)
    \/ \E t \in TaskIds : ReadLine(t)
    \/ \E t \in TaskIds : StreamEnded(t)
    \/ \E t \in TaskIds : SendEvent(t)
    \/ \E t \in TaskIds : Sleep(t)
    \/ PrintLog
    \/ ForwardRecv
    \/ ForwardSend
    \/ MainLoopRecv
    \/ TuiQuit

Spec == Init /\ [][Next]_vars

\* The invocation `my-pod` in stdout mode, the server
\* reporting every pod as the watch event did and no follow task scheduled
\* yet: the supervisor alone, its events handled one after the other.
InitSeq == InitWith({{"pod"}}, {NoFilter}, {NoTail}, {FALSE},
                    SupEvents, SupOpens, SupLines)

NextSeq ==
    \/ \E w \in Watchers : ReceiveApplyInOrder(w)
    \/ \E w \in Watchers : SpawnTailTasksForPodSynced(w)
    \/ \E w \in Watchers : InsertPodHandle(w)
    \/ \E w \in Watchers : StopTailingPod(w)
    \/ \E w \in Watchers : ReceiveDelete(w)
    \/ \E w \in Watchers : WatchError(w)

SpecSeq == InitSeq /\ [][NextSeq]_vars

\* The same with `-c <container>` given.
InitFilter == InitWith({{"pod"}}, ContainerFilters \ {NoFilter}, {NoTail}, {FALSE},
                       SupEvents, SupOpens, SupLines)

SpecFilter == InitFilter /\ [][NextSeq]_vars

\* The invocation `-l app=web my-pod` in stdout mode, the server reporting
\* every pod as the watch event did.
InitSup == InitWith({{"selector", "pod"}}, {NoFilter}, {NoTail}, {FALSE},
                    SupEvents, SupOpens, SupLines)

NextSup ==
    \/ \E w \in Watchers : ReceiveApplyInOrder(w)
    \/ \E w \in Watchers : SpawnTailTasksForPodSynced(w)
    \/ \E w \in Watchers : InsertPodHandle(w)
    \/ \E w \in Watchers : StopTailingPod(w)
    \/ \E w \in Watchers : ReceiveDelete(w)
    \/ \E w \in Watchers : WatchError(w)
    \/ \E t \in TaskIds : OpenStream(t)
    \/ \E t \in TaskIds : ReadLine(t)
    \/ \E t \in TaskIds : StreamEnded(t)
    \/ \E t \in TaskIds : SendEvent(t)
    \/ \E t \in TaskIds : Sleep(t)
    \/ PrintLog

SpecSup == InitSup /\ [][NextSup]_vars

\* The invocation `my-pod [--tail n]` in stdout mode.
InitFollow == InitWith({{"pod"}}, {NoFilter}, TailOptions, {FALSE},
                       FollowEvents, FollowOpens, FollowLines)

NextFollow ==
    \/ \E w \in Watchers : ReceiveApply(w)
    \/ \E w \in Watchers : SpawnTailTasksForPod(w)
    \/ \E w \in Watchers : InsertPodHandle(w)
    \/ \E w \in Watchers : StopTailingPod(w)
    \/ \E w \in Watchers : ReceiveDelete(w)
    \/ \E w \in Watchers : WatchError(w)
    \/ \E t \in TaskIds : OpenStream(t)
    \/ \E t \in TaskIds : ReadLine(t)
    \/ \E t \in TaskIds : StreamEnded(t)
    \/ \E t \in TaskIds : SendEvent(t)
    \/ \E t \in TaskIds : Sleep(t)
    \/ PrintLog

SpecFollow == InitFollow /\ [][NextFollow]_vars

\* The invocation `my-pod` in stdout or TUI mode, one pod event delivered.
InitTui == InitWith({{"pod"}}, {NoFilter}, {NoTail}, BOOLEAN,
                    TuiEvents, TuiOpens, TuiLines)

NextTui ==
    \/ \E w \in Watchers : ReceiveApply(w)
    \/ \E w \in Watchers : SpawnTailTasksForPod(w)
    \/ \E w \in Watchers : InsertPodHandle(w)
    \/ \E w \in Watchers : NotifyAdded(w)
    \/ \E w \in Watchers : ReceiveDelete(w)
    \/ \E w \in Watchers : NotifyDeleted(w)
    \/ \E w \in Watchers : WatchError(w)
    \/ \E t \in TaskIds : OpenStream(t)
    \/ \E t \in TaskIds : ReadLine(t)
    \/ \E t \in TaskIds : StreamEnded(t)
    \/ \E t \in TaskIds : SendEvent(t)
    \/ \E t \in TaskIds : Sleep(t)
    \/ PrintLog
    \/ ForwardRecv
    \/ ForwardSend
    \/ MainLoopRecv
    \/ TuiQuit

SpecTui == InitTui /\ [][NextTui]_vars

\* A run from the start of main in stdout mode: any command line over the
\* bounded arguments, the resolution of its references, the start of the
\* watchers, and the first pod events of my-pod, which may or may not bear the
\* label app=web.
InitStart ==
    /\ container = NoFilter
    /\ tail = NoTail
    /\ use_tui = FALSE
    /\ handles = [k \in AllKeys |-> <<>>]
    /\ tasks = <<>>
    /\ watchers = [w \in Watchers |-> AbsentWatcher]
    /\ resolver \in {NewResolver(resources, selector, context, namespace) :
                        resources \in ResourceLists, selector \in SelectorFlags,
                        context \in ContextFlags, namespace \in NamespaceFlags}
    /\ labelled \in SUBSET Pods
    /\ grep = NoFlag
    /\ stdout = <<>>
    /\ bus = <<>>
    /\ bus_closed = FALSE
    /\ fwd = NoMsg
    /\ event_ch = <<>>
    /\ event_closed = FALSE
    /\ app = NewApp(BufferSize)
    /\ presented = <<>>
    /\ events_left = StartEvents
    /\ opens_left = 0
    /\ server_log = LogLines(0)
    /\ observed = [p \in Pods |-> [phase |-> "None", spec |-> <<>>]]

NextStart ==
    \/ ParseResources
    \/ NextGroup
    \/ ResolveResource
    \/ BuildWatchConfig
    \/ SpawnAllWatchers
    \/ \E w \in Watchers : ReceiveApply(w)
    \/ \E w \in Watchers : SpawnTailTasksForPodSynced(w)
    \/ \E w \in Watchers : InsertPodHandle(w)
    \/ \E w \in Watchers : ReceiveDelete(w)

SpecStart == InitStart /\ [][NextStart]_vars

\* The invocation `my-pod` with any --grep, from the point where main has
\* resolved the command line and selects the presenter (stdout or TUI); one pod
\* event delivered.
InitGrep ==
    /\ container = NoFilter
    /\ tail = NoTail
    /\ use_tui \in BOOLEAN
    /\ handles = [k \in AllKeys |-> <<>>]
    /\ tasks = <<>>
    /\ watchers = [w \in Watchers |-> AbsentWatcher]
    /\ resolver = [ResolvedFor({"pod"}) EXCEPT !.pc = "done", !.spawned = <<>>]
    /\ labelled = Pods
    /\ grep \in GrepFlags
    /\ stdout = <<>>
    /\ bus = <<>>
    /\ bus_closed = FALSE
    /\ fwd = NoMsg
    /\ event_ch = <<>>
    /\ event_closed = FALSE
    /\ app = NewApp(BufferSize)
    /\ presented = <<>>
    /\ events_left = GrepEvents
    /\ opens_left = GrepOpens
    /\ server_log = LogLines(GrepLines)
    /\ observed = [p \in Pods |-> [phase |-> "None", spec |-> <<>>]]

NextGrep ==
    \/ SpawnAllWatchers
    \/ \E w \in Watchers : ReceiveApply(w)
    \/ \E w \in Watchers : SpawnTailTasksForPodSynced(w)
    \/ \E w \in Watchers : InsertPodHandle(w)
    \/ \E w \in Watchers : NotifyAdded(w)
    \/ \E w \in Watchers : ReceiveDelete(w)
    \/ \E w \in Watchers : NotifyDeleted(w)
    \/ \E t \in TaskIds : OpenStream(t)
    \/ \E t \in TaskIds : ReadLine(t)
    \/ \E t \in TaskIds : StreamEnded(t)
    \/ \E t \in TaskIds : SendEvent(t)
    \/ \E t \in TaskIds : Sleep(t)
    \/ PrintLog
    \/ ForwardRecv
    \/ ForwardSend
    \/ MainLoopRecv
    \/ TuiQuit

SpecGrep == InitGrep /\ [][NextGrep]_vars

\* The invocation `my-pod -c sidecar` in stdout mode, the spawned tasks
\* following their containers.
InitFilterFollow == InitWith({{"pod"}}, {"sidecar"}, {NoTail}, {FALSE},
                             FollowEvents, FollowOpens, FollowLines)

SpecFilterFollow == InitFilterFollow /\ [][NextFollow]_vars

\* The invocation `my-pod` in TUI mode: the pod events of my-pod and the main
\* loop that takes their PodUpdates off the event channel.
InitTuiPods == InitWith({{"pod"}}, {NoFilter}, {NoTail}, {TRUE},
                        SupEvents, SupOpens, SupLines)

NextTuiPods ==
    \/ \E w \in Watchers : ReceiveApply(w)
    \/ \E w \in Watchers : SpawnTailTasksForPodSynced(w)
    \/ \E w \in Watchers : InsertPodHandle(w)
    \/ \E w \in Watchers : NotifyAdded(w)
    \/ \E w \in Watchers : ReceiveDelete(w)
    \/ \E w \in Watchers : NotifyDeleted(w)
    \/ MainLoopRecv
    \/ TuiQuit

SpecTuiPods == InitTuiPods /\ [][NextTuiPods]_vars

\* The invocation `my-pod` in TUI mode with a --buffer-size within the bound,
\* the watch stream silent: only the App's own operations act.
InitApp ==
    /\ container = NoFilter
    /\ tail = NoTail
    /\ use_tui = TRUE
    /\ handles = [k \in AllKeys |-> <<>>]
    /\ tasks = <<>>
    /\ watchers = [w \in Watchers |->
                    IF w = "pod" THEN IdleWatcher ELSE AbsentWatcher]
    /\ resolver = ResolvedFor({"pod"})
    /\ labelled = Pods
    /\ grep = NoFlag
    /\ stdout = <<>>
    /\ bus = <<>>
    /\ bus_closed = FALSE
    /\ fwd = NoMsg
    /\ event_ch = <<>>
    /\ event_closed = FALSE
    /\ app \in {NewApp(n) : n \in 1..MaxBufferSize}
    /\ presented = <<>>
    /\ events_left = 0
    /\ opens_left = 0
    /\ server_log = <<>>
    /\ observed = [p \in Pods |-> [phase |-> "None", spec |-> <<>>]]

\* The keys that scroll, search, filter, pause and clear.
LogKeys == {CharKey(c) : c \in {"/", "f", "l", "3", "n", "N", "c", "p", "a"}}
            \cup {Key(code) : code \in {"Esc", "Enter", "Up", "Down", "PageUp",
                                        "PageDown", "Home", "End"}}

\* Log lines arriving while the user scrolls, searches, pauses and clears.
NextApp ==
    \/ AppKeyEvent(LogKeys)
    \/ AppAddLog

SpecApp == InitApp /\ [][NextApp]_vars

\* Any key of the bounded keyboard, no log line.
NextKeys == AppKeyEvent(Keys)

SpecKeys == InitApp /\ [][NextKeys]_vars

\* The keys that show the sidebar and toggle the selected row.
SidebarKeys == {CharKey("s"), CharKey(" ")}

\* Pods added and removed while the user toggles them in the sidebar.
NextPods ==
    \/ AppAddPod
    \/ AppRemovePod
    \/ AppKeyEvent(SidebarKeys)

SpecPods == InitApp /\ [][NextPods]_vars

\* ---------------------------------------------------------------- properties

\* No watcher is inside the handler of a pod event.
Quiescent == \A w \in Watchers : watchers[w].pc \in {"idle", "stopped", "absent"}

\* The follow tasks that were spawned and neither aborted nor returned.
ActiveTasks == {t \in 1..Len(tasks) : tasks[t].state = "running"}

ActiveKeys == {<<tasks[t].pod_name, tasks[t].container_name>> : t \in ActiveTasks}

\* The (pod, container) pairs of the pods whose last handled event showed
\* them Running or Pending, restricted to the filtered container if one is given.
ExpectedKeys ==
    {k \in Pods \X ContainerNames :
        /\ observed[k[1]].phase \in {"Running", "Pending"}
        /\ k[2] \in SeqToSet(observed[k[1]].spec)
        /\ container = NoFilter \/ k[2] = container}

\* The Log lines a task has put on the bus, in the order it sent them.
SentLines(t) == SelectSeq(tasks[t].sent, LAMBDA e : e.kind = "Log")

\* How many StatusChange Failed events a task has put on the bus.
FailedCount(t) == Len(SelectSeq(tasks[t].sent, LAMBDA e : e.kind = "Failed"))

\* This step puts a Log event of pod p on the bus.
EmitsLogOf(p) ==
    /\ Len(bus') = Len(bus) + 1
    /\ bus'[Len(bus')].kind = "Log"
    /\ bus'[Len(bus')].pod = p

\* C1: at any moment at most one follow task is active for a given
\* (cluster, namespace, pod, container), also when several watchers deliver
\* events for the same pod concurrently.
C1_AtMostOneActiveTaskPerKey ==
    \A t1, t2 \in ActiveTasks :
        (/\ tasks[t1].pod_name = tasks[t2].pod_name
         /\ tasks[t1].container_name = tasks[t2].container_name) => t1 = t2

\* C2: once every delivered pod event is handled, the active follow tasks are
\* exactly those of the containers of the pods last seen Running or Pending and
\* not deleted; a pod that stays Pending over several Apply events is tailed.
C2_ActiveTasksMatchLivePods == Quiescent => ActiveKeys = ExpectedKeys

\* C3: after a Delete event of a pod is processed (and while no later event is
\* being handled) the handle map has no entry of the pod and no further log
\* line of the pod is put on the bus.
C3_NoLineAfterDelete ==
    [][\A p \in Pods :
        (Quiescent /\ observed[p].phase = "Deleted") =>
            /\ ~WasTracking(BaseKey(p))
            /\ ~EmitsLogOf(p)]_vars

\* C4: across reconnects a follow task emits every distinct line of its
\* container only once.
C4_EachLineEmittedOnce ==
    \A t \in 1..Len(tasks) :
        \A i, j \in 1..Len(SentLines(t)) :
            SentLines(t)[i].line = SentLines(t)[j].line => i = j

\* The Log events of task t among the events presented so far (printed, or
\* passed to App::add_log), in the order they were presented.
PresentedLines(t) ==
    SelectSeq(presented, LAMBDA e : e.kind = "Log" /\ e.task = t)

RECURSIVE SentTotal(_)
SentTotal(n) == IF n = 0 THEN 0 ELSE Len(tasks[n].sent) + SentTotal(n - 1)

\* C6: the bus never holds more than BufferSize (--buffer-size) events; a
\* producer that finds it full keeps its event until there is room; and what
\* was sent is exactly what was received or is still pending, in send order
\* (nothing lost, nothing twice).
C6_BoundedBusNoLoss ==
    /\ [](/\ Len(bus) <= BufferSize
          /\ Len(presented) + Len(bus) = SentTotal(Len(tasks)))
    /\ [][/\ LET before == presented \o bus
                 after == presented' \o bus'
             IN  \/ after = before
                 \/ /\ Len(after) = Len(before) + 1
                    /\ SubSeq(after, 1, Len(before)) = before
          /\ \A t \in 1..Len(tasks) :
                (tasks[t].pc = "send" /\ Len(bus) = BufferSize) =>
                    /\ tasks'[t].outq = tasks[t].outq
                    /\ tasks'[t].sent = tasks[t].sent]_vars

\* A producer that sent before is suspended in send on a full bus, after the
\* consumer has already taken events off it.
C6_ProducerBlockedOnFullBus ==
    \E t \in 1..Len(tasks) :
        /\ Runnable(tasks[t])
        /\ tasks[t].pc = "send"
        /\ Len(bus) = BufferSize
        /\ tasks[t].sent # <<>>
        /\ presented # <<>>

\* C7: a pod watcher never terminates on an error of its watch stream.
C7_WatcherNeverTerminates == \A w \in Watchers : watchers[w].pc # "stopped"

ExitedOnNotFound ==
    {t \in 1..Len(tasks) :
        tasks[t].state = "returned" /\ tasks[t].open_result = "NotFound404"}

\* C9 as stated: a follow task whose open fails with 404 emits exactly one
\* StatusChange Failed, as its last event, and exits.
C9_ExactlyOneFailed ==
    \A t \in ExitedOnNotFound :
        /\ FailedCount(t) = 1
        /\ tasks[t].sent[Len(tasks[t].sent)].kind = "Failed"

\* C9 amended: after a 404 the task never sleeps or retries and exits, having
\* emitted StatusChange Failed as its last event once, or not at all when the
\* consumer side of the bus is closed; after any other open error it does not
\* exit but goes on to sleep and retry.
C9_AtMostOneFailedThenExit ==
    \A t \in 1..Len(tasks) :
        /\ FailedCount(t) <= 1
        /\ tasks[t].open_result = "NotFound404" =>
                /\ tasks[t].cont = "done"
                /\ tasks[t].pc \in {"send", "done"}
        /\ t \in ExitedOnNotFound =>
                \/ /\ FailedCount(t) = 1
                   /\ tasks[t].sent[Len(tasks[t].sent)].kind = "Failed"
                \/ /\ FailedCount(t) = 0
                   /\ bus_closed
        /\ tasks[t].open_result \in {"ApiError500", "Network"} =>
                /\ tasks[t].state # "returned"
                /\ tasks[t].cont = "sleep"
                /\ tasks[t].pc \in {"send", "sleep", "open"}

\* A task has exited on a 404 after emitting its one StatusChange Failed.
C9_ExitedAfterFailed ==
    \E t \in ExitedOnNotFound : FailedCount(t) = 1

\* The containers a pod event's handler is to start follow tasks for: with a
\* filter the filtered container if the pod's spec has it, else every
\* container of the pod's spec.
ContainersToFollow(spec) ==
    IF container = NoFilter THEN spec
    ELSE IF container \in SeqToSet(spec) THEN <<container>>
    ELSE <<>>

\* C10: the follow tasks a handler starts for a pod are those of the filtered
\* container, and only if the pod's spec has it (none for a name no container
\* of the pod bears); without a filter one per container of the spec.
C10_FollowsOnlyFilteredExisting ==
    [][\A w \in Watchers :
        (watchers[w].pc = "spawn" /\ watchers'[w].pc # "spawn") =>
            [i \in 1..(Len(tasks') - Len(tasks)) |->
                tasks'[Len(tasks) + i].container_name]
            = ContainersToFollow(watchers[w].spec)]_vars

\* The watcher is inside the handler of an Apply event that repeats the event
\* handled last for the pod (same phase, Running or Pending, same containers)
\* while the pod is tracked.
HandlesRepeatedApply(w) ==
    /\ watchers[w].pc \in {"spawn", "insert", "stop"}
    /\ watchers[w].phase \in {"Running", "Pending"}
    /\ observed[watchers[w].pod] =
            [phase |-> watchers[w].phase, spec |-> watchers[w].spec]
    /\ WasTracking(BaseKey(watchers[w].pod))

\* C11: applying the same Apply event (phase Running or Pending) a second time
\* in a row changes neither the keys of the handle map nor the set of active
\* follow tasks: it starts nothing and never stops an existing task.
C11_RepeatedApplyIsNoOp ==
    [][\A w \in Watchers :
        HandlesRepeatedApply(w) =>
            /\ HandleKeys' = HandleKeys
            /\ {t \in 1..Len(tasks') : tasks'[t].state = "running"} = ActiveTasks]_vars

\* C12: whenever no event is being handled, every active follow task belongs
\* to a pod whose event handled last had phase Running or Pending, with no
\* Delete handled since.
C12_ActiveTasksOfLivePodsOnly ==
    Quiescent =>
        \A t \in ActiveTasks :
            observed[tasks[t].pod_name].phase \in {"Running", "Pending"}

\* C13: when the handler of an Apply event whose phase is neither Running nor
\* Pending finds the pod tracked, it aborts all follow tasks of the pod and
\* removes all of the pod's entries from the handle map, leaving the entries
\* of other pods as they were.
C13_TerminalPhaseStopsPod ==
    [][\A w \in Watchers :
        (/\ watchers[w].pc = "stop"
         /\ watchers[w].phase \notin {"Running", "Pending"}
         /\ watchers'[w].pc # "stop") =>
            /\ \A k \in AllKeys :
                    IF k.pod_name = watchers[w].pod
                    THEN handles'[k] = <<>>
                    ELSE handles'[k] = handles[k]
            /\ \A t \in 1..Len(tasks') :
                    tasks'[t].pod_name = watchers[w].pod =>
                        tasks'[t].state # "running"]_vars

\* A line's timestamp as the task observed it; the task records none.
LastObserved(task) == "None"

\* The follow-log request the task is to make: the user's --tail on the first
\* attempt; on a reconnect since_time = last observed timestamp + 1s once a
\* line was emitted, else tail_lines = 0.
ExpectedLogParams(task) ==
    IF task.is_first_attempt
    THEN [tail_lines |-> tail, since_time |-> NoSince]
    ELSE IF task.lines_read > 0
    THEN [tail_lines |-> NoTail, since_time |-> <<LastObserved(task), "+1s">>]
    ELSE [tail_lines |-> 0, since_time |-> NoSince]

\* C14: the first request of a follow task uses the user's --tail; a reconnect
\* request never asks for the whole history.
C14_ReconnectAvoidsReplay ==
    \A t \in 1..Len(tasks) :
        tasks[t].pc = "open" =>
            /\ LogParams(tasks[t]).tail_lines = ExpectedLogParams(tasks[t]).tail_lines
            /\ LogParams(tasks[t]).since_time = ExpectedLogParams(tasks[t]).since_time

\* C15: once the consumer side of the bus is closed, a follow task whose send
\* fails exits instead of going on with its reconnect loop, whatever the
\* event it was sending.
C15_FailedSendEndsTask ==
    [][\A t \in 1..Len(tasks) :
        (/\ bus_closed
         /\ tasks[t].pc = "send"
         /\ tasks'[t] # tasks[t]) => tasks'[t].state = "returned"]_vars

\* The kinds a resource reference may name.
SupportedKinds == ControllerKinds \cup {"pod"}

\* The command line holds a reference whose kind is not a supported one.
NamesUnsupportedKind ==
    \E i \in 1..Len(resolver.resources) :
        /\ ParseResourceSpec(resolver.resources[i]).ok
        /\ KindOf(ParseResourceSpec(resolver.resources[i])) \notin SupportedKinds

\* C16: when a reference names a kind outside pod, deployment, statefulset,
\* daemonset, replicaset and job, the resolution does not complete (it fails,
\* exit code 1) and no watcher is started.
C16_UnsupportedKindFails ==
    NamesUnsupportedKind =>
        /\ resolver.pc \notin {"done", "spawned"}
        /\ resolver.spawned = <<>>

\* The references fetched so far whose controller the server did not return.
AbsentControllers ==
    {i \in 1..Len(resolver.fetched) :
        /\ resolver.fetched[i].tag = "Err"
        /\ resolver.fetched[i].kind \in ControllerKinds}

\* The WatchConfigs of a (context, namespace) pair.
ConfigsOf(context, namespace) ==
    {c \in SeqToSet(resolver.configs) :
        c.context = context /\ c.namespace = namespace}

\* The fetched reference i has its watch spec in the resolver's output: the
\* pod name of a pod reference, the rendered selector of a controller.
ProducedWatchSpec(i) ==
    LET f == resolver.fetched[i]
    IN  \E c \in ConfigsOf(f.context, f.namespace) :
            \/ f.tag = "None" /\ f.kind = "pod" /\ f.name \in c.explicit_pods
            \/ /\ f.tag = "Some"
               /\ SelectorToLabelsString(f.sel) \in SeqToSet(c.label_selectors)

\* The fetched reference i is one that has a watch spec to give.
HasWatchSpec(i) ==
    LET f == resolver.fetched[i]
    IN  \/ f.tag = "None" /\ f.kind = "pod"
        \/ f.tag = "Some" /\ SelectorToLabelsString(f.sel) # NoFlag

\* The --selector has its label watch in the default context and namespace.
CliSelectorProduced ==
    \E c \in ConfigsOf(resolver.default_context, resolver.default_namespace) :
        resolver.selector \in SeqToSet(c.label_selectors)

\* C17: when the controller a reference names is absent at startup the
\* resolution does not fail; the reference is skipped with one warning each, and
\* once the resolution is complete every other reference and the --selector
\* have their watch specs.
C17_AbsentControllerSkipped ==
    AbsentControllers # {} =>
        /\ resolver.pc # "failed"
        /\ \A i \in AbsentControllers :
                [level |-> "warn", kind |-> resolver.fetched[i].kind,
                 name |-> resolver.fetched[i].name] \in SeqToSet(resolver.log)
        /\ Cardinality({j \in 1..Len(resolver.log) : resolver.log[j].level = "warn"})
                = Cardinality({i \in 1..Len(resolver.fetched) :
                                    resolver.fetched[i].tag = "Err"})
        /\ resolver.pc \in {"done", "spawned"} =>
                /\ Len(resolver.fetched) = Len(resolver.resources)
                /\ \A i \in 1..Len(resolver.fetched) :
                        HasWatchSpec(i) => ProducedWatchSpec(i)
                /\ resolver.selector # NoFlag => CliSelectorProduced

\* The resolution is complete for a command line with an absent controller,
\* another reference that has a watch spec, and a --selector.
C17_ResolvedDespiteAbsentController ==
    /\ resolver.pc = "done"
    /\ AbsentControllers # {}
    /\ \E i \in 1..Len(resolver.fetched) : HasWatchSpec(i) /\ ProducedWatchSpec(i)
    /\ resolver.selector # NoFlag
    /\ CliSelectorProduced

\* The watcher spawn_all_watchers is to start for a reference of kind pod: the
\* field selector metadata.name=<name> in the reference's context and
\* namespace, the defaults where the reference names none.
NamePinnedWatch(spec) ==
    [context |-> GroupKey(resolver, spec, resolver.default_context,
                          resolver.default_namespace)[1],
     namespace |-> GroupKey(resolver, spec, resolver.default_context,
                            resolver.default_namespace)[2],
     kind |-> "fields", selector |-> "metadata.name=" \o spec.name]

\* The watcher for the --selector: a label watch in the default context and
\* namespace.
CliLabelWatch ==
    [context |-> resolver.default_context,
     namespace |-> resolver.default_namespace,
     kind |-> "labels", selector |-> resolver.selector]

\* The command line is `-l app=web my-pod`.
SelectorAndPodInvocation ==
    /\ resolver.resources = <<<<"my-pod">>>>
    /\ resolver.selector = "app=web"
    /\ resolver.context = NoFlag
    /\ resolver.namespace = NoFlag

\* The first pod event of the run has been handled, and it reported my-pod
\* Running or Pending.
FirstEventRunningOrPending ==
    /\ Quiescent
    /\ events_left = StartEvents - 1
    /\ observed["my-pod"].phase \in {"Running", "Pending"}

NoDuplicates(seq) == \A i, j \in 1..Len(seq) : seq[i] = seq[j] => i = j

\* C19: the resolver's output holds no two equal watch specs: one WatchConfig
\* per (context, namespace), no label-selector string twice in a WatchConfig;
\* hence no two watchers with the same predicate are started.
C19_NoDuplicateWatchSpecs ==
    resolver.pc \in {"done", "spawned"} =>
        /\ NoDuplicates([i \in 1..Len(resolver.configs) |->
                            <<resolver.configs[i].context,
                              resolver.configs[i].namespace>>])
        /\ \A i \in 1..Len(resolver.configs) :
                NoDuplicates(resolver.configs[i].label_selectors)
        /\ NoDuplicates(resolver.spawned)

\* A label selector without match_labels and without match_expressions.
IsEmptySelector(sel) == sel.match_labels = {} /\ sel.match_expressions = <<>>

\* The references fetched so far whose controller has an empty selector.
EmptySelectorControllers ==
    {i \in 1..Len(resolver.fetched) :
        /\ resolver.fetched[i].tag = "Some"
        /\ IsEmptySelector(resolver.fetched[i].sel)}

\* The references of a WatchConfig's group whose controller has a selector
\* that is not empty.
NonEmptySelectorControllers(c) ==
    {i \in 1..Len(resolver.fetched) :
        /\ resolver.fetched[i].context = c.context
        /\ resolver.fetched[i].namespace = c.namespace
        /\ resolver.fetched[i].tag = "Some"
        /\ ~IsEmptySelector(resolver.fetched[i].sel)}

\* C20: for a controller whose label selector is empty
\* selector_to_labels_string returns none and the resolver notes that the
\* selector was empty; the controller adds no label watch: a WatchConfig holds
\* at most one label selector per controller with a non-empty selector, plus
\* the --selector, and never the empty selector string.
C20_EmptySelectorNoWatch ==
    /\ \A i \in EmptySelectorControllers :
            /\ SelectorToLabelsString(resolver.fetched[i].sel) = NoFlag
            /\ [level |-> "debug", kind |-> resolver.fetched[i].kind,
                name |-> resolver.fetched[i].name] \in SeqToSet(resolver.log)
    /\ resolver.pc \in {"done", "spawned"} =>
            \A c \in SeqToSet(resolver.configs) :
                /\ "" \notin SeqToSet(c.label_selectors)
                /\ Len(c.label_selectors) <=
                        Cardinality(NonEmptySelectorControllers(c))
                            + (IF resolver.selector # NoFlag THEN 1 ELSE 0)

\* The resolution is complete for a command line that names a controller with
\* an empty selector, and no label watch was produced.
C20_EmptySelectorResolved ==
    /\ resolver.pc = "done"
    /\ EmptySelectorControllers # {}
    /\ \A c \in SeqToSet(resolver.configs) : c.label_selectors = <<>>

\* The value a map holds for a key.
ValueOf(match_labels, key) == (CHOOSE kv \in match_labels : kv[1] = key)[2]

\* k1=v1,k2=v2,...: the pairs of the map for the keys of `keys`, which are in
\* lexicographic order, with a comma before every pair but the first.
RECURSIVE SortedPairs(_, _, _)
SortedPairs(match_labels, keys, first) ==
    IF keys = <<>> THEN ""
    ELSE IF \E kv \in match_labels : kv[1] = Head(keys)
    THEN (IF first THEN "" ELSE ",") \o Head(keys) \o "=" \o
            ValueOf(match_labels, Head(keys)) \o
            SortedPairs(match_labels, Tail(keys), FALSE)
    ELSE SortedPairs(match_labels, Tail(keys), first)

\* The references fetched so far whose controller's selector has match_labels
\* and no match_expressions.
LabelOnlyControllers ==
    {i \in 1..Len(resolver.fetched) :
        /\ resolver.fetched[i].tag = "Some"
        /\ resolver.fetched[i].sel.match_labels # {}
        /\ resolver.fetched[i].sel.match_expressions = <<>>}

\* C21: for a LabelSelector with a non-empty match_labels and no
\* match_expressions selector_to_labels_string returns the key=value pairs
\* joined by commas with the keys in lexicographic order, whatever the order
\* in which the map was filled; {app: web, version: v1} gives
\* "app=web,version=v1". The string is the one the resolver puts into the
\* WatchConfig of the reference.
C21_LabelsRenderedSorted ==
    /\ \A i \in LabelOnlyControllers :
            LET sel == resolver.fetched[i].sel
            IN  /\ SelectorToLabelsString(sel) =
                        SortedPairs(sel.match_labels, LabelKeys, TRUE)
                /\ sel.match_labels = {<<"app", "web">>, <<"version", "v1">>} =>
                        SelectorToLabelsString(sel) = "app=web,version=v1"
                /\ resolver.pc \in {"done", "spawned"} =>
                        \E c \in ConfigsOf(resolver.fetched[i].context,
                                           resolver.fetched[i].namespace) :
                            SortedPairs(sel.match_labels, LabelKeys, TRUE)
                                \in SeqToSet(c.label_selectors)
    /\ \A entries \in {<<<<"version", "v1">>, <<"app", "web">>>>,
                       <<<<"app", "web">>, <<"version", "v1">>>>} :
            SelectorToLabelsString([match_labels |-> BTreeMapOf(entries),
                                    match_expressions |-> <<>>])
                = "app=web,version=v1"

\* The resolution is complete for a controller whose selector has two labels,
\* and its WatchConfig holds the sorted rendering.
C21_TwoLabelsResolved ==
    /\ resolver.pc = "done"
    /\ \E i \in LabelOnlyControllers :
            /\ Cardinality(resolver.fetched[i].sel.match_labels) = 2
            /\ \E c \in SeqToSet(resolver.configs) :
                    "app=web,version=v1" \in SeqToSet(c.label_selectors)

\* The command line holds a reference of the four-part form
\* context/namespace/kind/name.
HasContextPrefix ==
    \E i \in 1..Len(resolver.resources) :
        /\ ParseResourceSpec(resolver.resources[i]).ok
        /\ ParseResourceSpec(resolver.resources[i]).context # NoFlag

\* Nothing else is wrong with the command line: it names something to tail,
\* every reference parses, every context it names is in the kubeconfig, and
\* --namespace does not meet a reference with a namespace of its own.
OtherwiseValid ==
    /\ resolver.resources # <<>> \/ resolver.selector # NoFlag
    /\ \A i \in 1..Len(resolver.resources) :
            /\ ParseResourceSpec(resolver.resources[i]).ok
            /\ resolver.namespace # NoFlag =>
                    ParseResourceSpec(resolver.resources[i]).namespace = NoFlag
    /\ ContextsToInit(resolver) \subseteq KubeconfigContexts

\* C22: a command line with --context and a reference that carries a context
\* prefix is rejected: the resolution never gets past the checks and no
\* watcher is started; a command line with only one of the two, and nothing
\* else wrong, is not rejected.
C22_ContextFlagExcludesPrefix ==
    /\ (resolver.context # NoFlag /\ HasContextPrefix) =>
            /\ resolver.pc \in {"parse", "failed"}
            /\ resolver.spawned = <<>>
            /\ \A w \in Watchers : watchers[w].pc = "absent"
    /\ (/\ (resolver.context # NoFlag) # HasContextPrefix
        /\ OtherwiseValid) => resolver.pc # "failed"

\* The command line with --context and a context prefix has been rejected for
\* that reason.
C22_RejectedForBoth ==
    /\ resolver.context # NoFlag
    /\ HasContextPrefix
    /\ resolver.pc = "failed"
    /\ resolver.error = "Cannot use both --context flag and context in resource spec"

\* C23: when the --grep value is not a valid regular expression, in stdout
\* mode and in TUI mode alike, no pod watcher and no follow task is started and
\* no log line is output (the process exits with code 1 instead).
C23_InvalidGrepRejected ==
    (grep # NoFlag /\ ~RegexOk(grep)) =>
        /\ resolver.pc # "spawned"
        /\ \A w \in Watchers : watchers[w].pc = "absent"
        /\ tasks = <<>>
        /\ presented = <<>>
        /\ stdout = <<>>

\* The printed text of a bus message, as the format of the stdout output
\* gives it: [cluster.namespace/pod/container] line.
ExpectedText(msg) ==
    IF msg.kind = "Log" /\ msg.pod = "my-pod" /\ msg.container = "app"
    THEN IF msg.line = 1 THEN "[ctx.default/my-pod/app] L1"
         ELSE IF msg.line = 2 THEN "[ctx.default/my-pod/app] L2"
         ELSE "[ctx.default/my-pod/app] L3"
    ELSE IF msg.kind = "Log" /\ msg.pod = "my-pod" /\ msg.container = "sidecar"
    THEN IF msg.line = 1 THEN "[ctx.default/my-pod/sidecar] L1"
         ELSE IF msg.line = 2 THEN "[ctx.default/my-pod/sidecar] L2"
         ELSE "[ctx.default/my-pod/sidecar] L3"
    ELSE "[ctx.default/" \o msg.pod \o "/" \o msg.container \o "] "

C25_EventsNameRecordedKey ==
    \A t \in 1..Len(tasks) : \A k \in AllKeys :
        (tasks[t].sent # <<>> /\ t \in SeqToSet(handles[k])) =>
            /\ k.pod_name = tasks[t].pod_name
            /\ k.container_name = tasks[t].container_name

\* C26: while no pod event is being handled, the abort handle of every follow
\* task that was spawned and has neither been aborted nor returned is in an
\* entry of the handle map.
C26_RunningTaskHasRecordedHandle ==
    Quiescent =>
        \A t \in ActiveTasks : \E k \in AllKeys : t \in SeqToSet(handles[k])

\* The containers of pod p that have an entry in the handle map.
TrackedContainers(p) ==
    {k.container_name : k \in {h \in HandleKeys : SamePod(h, BaseKey(p))}}

\* C27: the handler of an Apply event for a tracked Running pod whose
\* container list differs from the tracked one aborts and removes the tasks of
\* the containers that vanished, records tasks for the added containers, and
\* leaves the entries and tasks of the unchanged containers as they are.
C27_ChangedContainerListReconciled ==
    [][\A p \in Pods :
        (/\ Quiescent /\ Quiescent'
         /\ events_left' < events_left
         /\ observed[p].phase = "Running"
         /\ observed'[p].phase = "Running"
         /\ WasTracking(BaseKey(p))
         /\ TrackedContainers(p) # SeqToSet(observed'[p].spec)) =>
            LET new == SeqToSet(observed'[p].spec)
                keys == {k \in AllKeys : SamePod(k, BaseKey(p))}
            IN  \A k \in keys :
                    /\ (handles'[k] # <<>>) <=> (k.container_name \in new)
                    /\ (k.container_name \in new /\ handles[k] # <<>>) =>
                            /\ handles'[k] = handles[k]
                            /\ \A t \in SeqToSet(handles[k]) : tasks'[t] = tasks[t]
                    /\ k.container_name \notin new =>
                            \A t \in SeqToSet(handles[k]) :
                                tasks'[t].state # "running"]_vars

\* C28: a follow task that is about to retry opening its stream has already
\* emitted the StatusChange into Reconnecting of the current outage (every way
\* to the retry sleep emits one); a retry that fails again emits no further one.
C28_OneReconnectingPerOutage ==
    [][\A t \in 1..Len(tasks) :
        (tasks[t].pc = "open" /\ ~tasks[t].is_first_attempt) =>
            \A i \in 1..Len(tasks'[t].outq) :
                tasks'[t].outq[i].kind # "Reconnecting"]_vars

\* C29: when the main loop of the TUI has handled the Deleted update of a pod,
\* App.pods and App.pod_states hold no entry of any container of that pod.
C29_DeletedPodLeavesApp ==
    [][(/\ event_ch # <<>>
        /\ Head(event_ch).type = "PodUpdate"
        /\ Head(event_ch).event_type = "Deleted"
        /\ Len(event_ch') < Len(event_ch)) =>
            LET base_key == Head(event_ch).key
            IN  /\ \A i \in 1..Len(app'.pods) : ~SamePod(app'.pods[i].key, base_key)
                /\ \A k \in DOMAIN app'.pod_states : ~SamePod(k, base_key)]_vars

\* C30: every event the TUI main loop takes off the event channel is handled:
\* a step that removes events removes either LogMessages only, all of them
\* passed to App::add_log, or one PodUpdate, which is applied; no PodUpdate is
\* taken off the channel together with a burst of LogMessages.
C30_EveryReceivedEventHandled ==
    [][Len(event_ch') < Len(event_ch) =>
        LET n == Len(event_ch) - Len(event_ch')
            taken == SubSeq(event_ch, 1, n)
        IN  IF Head(event_ch).type = "LogMessage"
            THEN /\ \A i \in 1..n : taken[i].type = "LogMessage"
                 /\ presented' = presented \o [i \in 1..n |-> taken[i].msg]
            ELSE /\ n = 1
                 /\ taken[1].event_type = "Added" =>
                        taken[1].key \in DOMAIN app'.pod_states]_vars

\* C31: among the events a follow task has put on the bus, every Log line that
\* comes after a StatusChange to Reconnecting is preceded by a StatusChange to
\* Connected that was emitted after that Reconnecting.
C31_ConnectedBeforeLinesResume ==
    \A t \in 1..Len(tasks) :
        \A i, j \in 1..Len(tasks[t].sent) :
            (/\ i < j
             /\ tasks[t].sent[i].kind = "Reconnecting"
             /\ tasks[t].sent[j].kind = "Log") =>
                \E k \in (i + 1)..(j - 1) : tasks[t].sent[k].kind = "Connected"

\* Every follow task recorded for pod p has returned by itself.
AllRecordedReturned(p) ==
    \A k \in HandleKeys : SamePod(k, BaseKey(p)) =>
        \A t \in SeqToSet(handles[k]) : tasks[t].state = "returned"

\* C32: the entries of follow tasks that returned by themselves (404 on open,
\* bus closed) do not make the supervisor ignore the pod: an Apply event that
\* shows a pod Running whose recorded tasks have all returned is not handled
\* as "already tracked", that is, without starting to tail the pod again.
C32_ExitedTaskDoesNotBlockRetail ==
    [][\A p \in Pods :
        ~(/\ Quiescent /\ Quiescent'
          /\ events_left' < events_left
          /\ observed'[p].phase = "Running"
          /\ WasTracking(BaseKey(p))
          /\ AllRecordedReturned(p)
          /\ handles' = handles
          /\ tasks' = tasks)]_vars

\* C33: an add_log while the App is paused leaves the App as it is
\* (log_buffer, scroll_offset), and the message is never added later: the only
\* message a step can add to log_buffer is the one passed to add_log in that
\* very step, and only when the App is not paused.
C33_PausedAddLogIsLost ==
    [][LET added == presented' # presented
           new == SeqToSet(app'.log_buffer) \ SeqToSet(app.log_buffer)
       IN  /\ (added /\ app.paused) => app' = app
           /\ new \subseteq (IF added /\ ~app.paused
                              THEN {presented'[Len(presented')]} ELSE {})]_vars

\* The second line arrived during a pause; after unpausing the third line was
\* added behind the first.
C33_LineOfPauseAbsentAfterUnpause ==
    /\ ~app.paused
    /\ app.max_buffer_size = 2
    /\ Len(presented) = 3
    /\ app.log_buffer = <<AppMsg(1), AppMsg(3)>>

\* The messages add_log is passed in the App's runs.
AppMsgs == {AppMsg(i) : i \in 1..AppLines}

\* C34 as stated: log_buffer never holds more than max_buffer_size messages,
\* and add_log on a full buffer evicts exactly the oldest message and appends
\* the new one, the others keeping their order.
C34_FullBufferEvictsOldest ==
    /\ Len(app.log_buffer) <= app.max_buffer_size
    /\ \A msg \in AppMsgs :
        Len(app.log_buffer) = app.max_buffer_size =>
            AddLog(app, msg).log_buffer = Append(Tail(app.log_buffer), msg)

\* C34 amended: log_buffer never holds more than max_buffer_size messages;
\* add_log on a full buffer evicts exactly the oldest message and appends the
\* new one unless the App is paused, and changes nothing when it is paused.
C34_FullBufferEvictsOldestUnlessPaused ==
    /\ Len(app.log_buffer) <= app.max_buffer_size
    /\ \A msg \in AppMsgs :
        /\ (Len(app.log_buffer) = app.max_buffer_size /\ ~app.paused) =>
                AddLog(app, msg).log_buffer = Append(Tail(app.log_buffer), msg)
        /\ app.paused => AddLog(app, msg) = app

\* A buffer of two messages was full when the third line arrived: the first
\* line was evicted.
C34_OldestEvicted ==
    /\ ~app.paused
    /\ app.max_buffer_size = 2
    /\ app.log_buffer = <<AppMsg(2), AppMsg(3)>>

\* C35: scroll_offset is 0 while log_buffer is empty and otherwise at most
\* log_buffer.len() - 1.
C35_ScrollOffsetWithinBuffer ==
    IF app.log_buffer = <<>>
    THEN app.scroll_offset = 0
    ELSE app.scroll_offset <= Len(app.log_buffer) - 1

\* A jump has put scroll_offset on a search match that is not the first line
\* of a full buffer from which a message was evicted before.
C35_JumpedToMatchAfterEviction ==
    /\ ~app.auto_scroll
    /\ app.search_matches # <<>>
    /\ app.scroll_offset = app.search_matches[app.current_match_index + 1]
    /\ app.scroll_offset > 0
    /\ Len(app.log_buffer) = app.max_buffer_size
    /\ Len(presented) > app.max_buffer_size
    /\ app.log_buffer[1] # AppMsg(1)

\* The rows the sidebar selection can be on.
SidebarItems == {NoKey} \cup DOMAIN app.pod_states

\* C36: handle_key_event returns false exactly for q, Q or Ctrl-C pressed in
\* Normal mode; in Search and Filter mode a character key, q and Ctrl-C
\* included, is appended to the pattern being typed and does not quit; in Help
\* mode any key closes the help and does nothing else.
C36_QuitOnlyInNormalMode ==
    \A key \in Keys, item \in SidebarItems :
        LET result == HandleKeyEvent(app, key, item)
            quits == /\ key.code = "Char"
                     /\ key.c \in {"q", "Q"} \/ (key.c = "c" /\ key.ctrl)
        IN  /\ ~result.continue <=> (app.mode = "Normal" /\ quits)
            /\ (app.mode = "Search" /\ key.code = "Char") =>
                    result.app = [app EXCEPT !.search_pattern = Append(@, key.c)]
            /\ (app.mode = "Filter" /\ key.code = "Char") =>
                    result.app = [app EXCEPT !.filter_pattern = Append(@, key.c)]
            /\ app.mode = "Help" =>
                    result.app = [app EXCEPT !.help_visible = FALSE,
                                             !.mode = "Normal"]

\* A q typed in Search mode is in the pattern and the main loop still runs.
C36_QuitKeyTypedIntoSearch ==
    /\ app.mode = "Search"
    /\ app.search_pattern = <<"q">>
    /\ ~event_closed

\* C37: help_visible is true exactly when the mode is Help; Esc and Enter lead
\* from Search and Filter mode to Normal mode, and any key leads from Help
\* mode to Normal mode.
C37_HelpVisibleIffHelpMode ==
    /\ app.help_visible <=> app.mode = "Help"
    /\ \A key \in Keys, item \in SidebarItems :
        LET result == HandleKeyEvent(app, key, item)
        IN  /\ (app.mode \in {"Search", "Filter"} /\ key.code \in {"Esc", "Enter"}) =>
                    result.app.mode = "Normal"
            /\ app.mode = "Help" => result.app.mode = "Normal"

\* The help is open, and a filter was typed and confirmed before.
C37_HelpOpenedAfterFilter ==
    /\ app.mode = "Help"
    /\ app.help_visible
    /\ app.filter_pattern # <<>>

\* The keys of the entries of App.pods.
PodsKeys(a) == {a.pods[i].key : i \in 1..Len(a.pods)}

\* C38: App.pods has no two entries of one PodKey, its keys are the keys of
\* App.pod_states, and add_pod for a key already present replaces the stored
\* info in place and leaves pod_states, the enabled flag included, as it is.
C38_PodsAndStatesInStep ==
    /\ \A i, j \in 1..Len(app.pods) :
            app.pods[i].key = app.pods[j].key => i = j
    /\ PodsKeys(app) = DOMAIN app.pod_states
    /\ \A key \in DOMAIN app.pod_states, phase \in Phases :
        LET info == [key |-> key, phase |-> phase]
            after == AddPod(app, info)
        IN  /\ after.pod_states = app.pod_states
            /\ Len(after.pods) = Len(app.pods)
            /\ \A i \in 1..Len(app.pods) :
                    after.pods[i] = IF app.pods[i].key = key THEN info
                                    ELSE app.pods[i]

\* Two containers are listed, one of them Succeeded and disabled in the
\* sidebar.
C38_DisabledPodUpdated ==
    /\ Len(app.pods) = 2
    /\ \E i \in 1..2 :
        /\ ~app.pod_states[app.pods[i].key].enabled
        /\ app.pods[i].phase = "Succeeded"

====
